---- MODULE Spec2Model ----
(***************************************************************************)
(* Model of two codecs of etherparse:                                      *)
(*   - src/transport/icmp6.rs          ICMPv6 type codec and header        *)
(*   - src/internet/ipv6_raw_extension.rs   raw IPv6 extension header      *)
(*                                                                         *)
(* Six specifications share this module, one per object under test:        *)
(*   Spec        an Ipv6RawExtensionHeader driven through its public API   *)
(*   SpecView    an Ipv6RawExtensionHeaderSlice built over an input slice  *)
(*   SpecIcmp    Icmp6Type::from_bytes / to_bytes applied to a byte triple *)
(*   SpecHeader  an Icmp6Header driven through its public API, and the     *)
(*               Icmp6HeaderSlice built over input slices                  *)
(*   SpecSupported  header_type_supported applied to a protocol number     *)
(*   SpecError   ReadError::add_slice_offset applied to a read error       *)
(* The variables of the objects a specification does not drive stay at     *)
(* their idle values.                                                      *)
(*                                                                         *)
(* Bytes are naturals below 256.  A u32 is kept as the pair <<hi, lo>> of  *)
(* its 16-bit halves (value hi * 65536 + lo), which is exact over the      *)
(* whole u32 range.  A usize is such a pair too, with hi unbounded, so     *)
(* that lengths beyond u32::MAX are exact.                                 *)
(***************************************************************************)
EXTENDS Integers, Sequences, FiniteSets, TLC

VARIABLES
    \* --- SpecIcmp ---
    triple,     \* the input (icmp_type, icmp_code, four_bytes)
    msg,        \* the decoded Icmp6Type, NoMsg before decoding
    wire,       \* the re-encoded (icmp_type, icmp_code, four_bytes), NoWire before
    \* --- SpecView ---
    vin,        \* the input slice handed to Ipv6RawExtensionHeaderSlice::from_slice
    view,       \* the view, NoView when none was built
    vret,       \* the return value of the last call on the view
    \* --- Spec ---
    hdr,        \* the Ipv6RawExtensionHeader under test, NoHeader before creation
    arg,        \* the argument of the last call
    ret,        \* the return value of the last call
    \* --- SpecHeader ---
    ihdr,       \* the Icmp6Header under test, NoIcmp6Header before creation
    iarg,       \* the argument of the last call
    iret,       \* the return value of the last call
    assigned    \* the value the caller last assigned to ihdr.icmp_chksum, 0 if none

vars == <<triple, msg, wire, vin, view, vret, hdr, arg, ret, ihdr, iarg, iret, assigned>>
icmpVars == <<triple, msg, wire>>
viewVars == <<vin, view, vret>>
hdrVars == <<hdr, arg, ret>>
ihVars == <<ihdr, iarg, iret, assigned>>

(***************************************************************************)
(* Bounds of the model.                                                    *)
(***************************************************************************)
\* ICMPv6 codes tried are 0..MaxCode and 255.
MaxCode == 8

\* Input slices carry up to MaxTrail bytes after the header.
MaxTrail == 2

Byte == 0..255

(***************************************************************************)
(* ICMPv6: constants of module icmpv6.                                     *)
(***************************************************************************)
TYPE_DST_UNREACH == 1
TYPE_PACKET_TOO_BIG == 2
TYPE_TIME_EXCEEDED == 3
TYPE_PARAM_PROB == 4
TYPE_ECHO_REQUEST == 128
TYPE_ECHO_REPLY == 129

CODE_DST_UNREACH_NOROUTE == 0
CODE_DST_UNREACH_PROHIBITED == 1
CODE_DST_UNREACH_BEYONDSCOPE == 2
CODE_DST_UNREACH_ADDR == 3
CODE_DST_UNREACH_PORT == 4
CODE_DST_UNREACH_SOURCE_ADDRESS_FAILED_POLICY == 5
CODE_DST_UNREACH_REJECT_ROUTE_TO_DEST == 6

CODE_TIME_EXCEEDED_HOP_LIMIT_EXCEEDED == 0
CODE_TIME_EXCEEDED_FRAGMENT_REASSEMBLY_TIME_EXCEEDED == 1

Zero4 == <<0, 0, 0, 0>>

(***************************************************************************)
(* Integer conversions of the standard library, as used by the codec.      *)
(***************************************************************************)
\* u16::from_be_bytes([a, b])
u16_from_be_bytes(b) == b[1] * 256 + b[2]

\* u16::to_be_bytes
u16_to_be_bytes(v) == <<v \div 256, v % 256>>

\* u32::from_be_bytes(four_bytes), as <<hi, lo>>
u32_from_be_bytes(f) == <<u16_from_be_bytes(<<f[1], f[2]>>), u16_from_be_bytes(<<f[3], f[4]>>)>>

\* u32::to_be_bytes
u32_to_be_bytes(v) == u16_to_be_bytes(v[1]) \o u16_to_be_bytes(v[2])

(***************************************************************************)
(* IcmpEchoHeader { id: u16, seq: u16 }: 4-byte encode/decode.             *)
(***************************************************************************)
IcmpEchoHeader_from_bytes(f) ==
    [id |-> u16_from_be_bytes(<<f[1], f[2]>>), seq |-> u16_from_be_bytes(<<f[3], f[4]>>)]

IcmpEchoHeader_to_bytes(e) == u16_to_be_bytes(e.id) \o u16_to_be_bytes(e.seq)

(***************************************************************************)
(* enum Icmp6DestUnreachable                                               *)
(***************************************************************************)
DestUnreachRaw(code, four_bytes) == [tag |-> "Raw", code |-> code, four_bytes |-> four_bytes]
DestUnreachNamed(name) == [tag |-> name]

Icmp6DestUnreachable_from_bytes(code, four_bytes) ==
    CASE code = CODE_DST_UNREACH_NOROUTE -> DestUnreachNamed("NoRoute")
      [] code = CODE_DST_UNREACH_PROHIBITED -> DestUnreachNamed("Prohibited")
      [] code = CODE_DST_UNREACH_BEYONDSCOPE -> DestUnreachNamed("BeyondScope")
      [] code = CODE_DST_UNREACH_ADDR -> DestUnreachNamed("Address")
      [] code = CODE_DST_UNREACH_PORT -> DestUnreachNamed("Port")
      [] code = CODE_DST_UNREACH_SOURCE_ADDRESS_FAILED_POLICY ->
            DestUnreachNamed("SourceAddressFailedPolicy")
      [] code = CODE_DST_UNREACH_REJECT_ROUTE_TO_DEST -> DestUnreachNamed("RejectRoute")
      [] OTHER -> DestUnreachRaw(code, four_bytes)

Icmp6DestUnreachable_code(d) ==
    CASE d.tag = "Raw" -> d.code
      [] d.tag = "NoRoute" -> CODE_DST_UNREACH_NOROUTE
      [] d.tag = "Prohibited" -> CODE_DST_UNREACH_PROHIBITED
      [] d.tag = "BeyondScope" -> CODE_DST_UNREACH_BEYONDSCOPE
      [] d.tag = "Address" -> CODE_DST_UNREACH_ADDR
      [] d.tag = "Port" -> CODE_DST_UNREACH_PORT
      [] d.tag = "SourceAddressFailedPolicy" -> CODE_DST_UNREACH_SOURCE_ADDRESS_FAILED_POLICY
      [] d.tag = "RejectRoute" -> CODE_DST_UNREACH_REJECT_ROUTE_TO_DEST

Icmp6DestUnreachable_to_bytes(d) ==
    CASE d.tag = "Raw" -> <<d.code, d.four_bytes>>
      [] d.tag = "NoRoute" -> <<CODE_DST_UNREACH_NOROUTE, Zero4>>
      [] d.tag = "Prohibited" -> <<CODE_DST_UNREACH_PROHIBITED, Zero4>>
      [] d.tag = "BeyondScope" -> <<CODE_DST_UNREACH_BEYONDSCOPE, Zero4>>
      [] d.tag = "Address" -> <<CODE_DST_UNREACH_ADDR, Zero4>>
      [] d.tag = "Port" -> <<CODE_DST_UNREACH_PORT, Zero4>>
      [] d.tag = "SourceAddressFailedPolicy" ->
            <<CODE_DST_UNREACH_SOURCE_ADDRESS_FAILED_POLICY, Zero4>>
      [] d.tag = "RejectRoute" -> <<CODE_DST_UNREACH_REJECT_ROUTE_TO_DEST, Zero4>>

(***************************************************************************)
(* enum Icmp6TimeExceededCode, enum Icmp6ParameterProblemCode              *)
(***************************************************************************)
\* impl From<u8> for Icmp6TimeExceededCode
Icmp6TimeExceededCode_from(code) ==
    CASE code = CODE_TIME_EXCEEDED_HOP_LIMIT_EXCEEDED -> [tag |-> "HopLimitExceeded"]
      [] code = CODE_TIME_EXCEEDED_FRAGMENT_REASSEMBLY_TIME_EXCEEDED ->
            [tag |-> "FragmentReassemblyTimeExceeded"]
      [] OTHER -> [tag |-> "Raw", code |-> code]

\* impl From<Icmp6TimeExceededCode> for u8
Icmp6TimeExceededCode_into_u8(c) ==
    CASE c.tag = "Raw" -> c.code
      [] c.tag = "HopLimitExceeded" -> CODE_TIME_EXCEEDED_HOP_LIMIT_EXCEEDED
      [] c.tag = "FragmentReassemblyTimeExceeded" ->
            CODE_TIME_EXCEEDED_FRAGMENT_REASSEMBLY_TIME_EXCEEDED

\* impl From<u8> for Icmp6ParameterProblemCode
Icmp6ParameterProblemCode_from(code) == [tag |-> "Raw", code |-> code]

\* impl From<Icmp6ParameterProblemCode> for u8
Icmp6ParameterProblemCode_into_u8(c) == c.code

(***************************************************************************)
(* enum Icmp6Type                                                          *)
(***************************************************************************)
\* Icmp6Type::from_bytes with the whole message downgraded to Raw when the code of a
\* destination-unreachable message is not a named one.
Icmp6Type_from_bytes_raw_on_unknown_code(icmp_type, icmp_code, four_bytes) ==
    CASE icmp_type = TYPE_DST_UNREACH /\ icmp_code <= CODE_DST_UNREACH_REJECT_ROUTE_TO_DEST ->
            [tag |-> "DestinationUnreachable",
             f0 |-> Icmp6DestUnreachable_from_bytes(icmp_code, four_bytes)]
      [] icmp_type = TYPE_PACKET_TOO_BIG ->
            [tag |-> "PacketTooBig", mtu |-> u32_from_be_bytes(four_bytes)]
      [] icmp_type = TYPE_TIME_EXCEEDED ->
            [tag |-> "TimeExceeded", code |-> Icmp6TimeExceededCode_from(icmp_code)]
      [] icmp_type = TYPE_PARAM_PROB ->
            [tag |-> "ParameterProblem",
             code |-> Icmp6ParameterProblemCode_from(icmp_code),
             pointer |-> u32_from_be_bytes(four_bytes)]
      [] icmp_type = TYPE_ECHO_REQUEST ->
            [tag |-> "EchoRequest", f0 |-> IcmpEchoHeader_from_bytes(four_bytes)]
      [] icmp_type = TYPE_ECHO_REPLY ->
            [tag |-> "EchoReply", f0 |-> IcmpEchoHeader_from_bytes(four_bytes)]
      [] OTHER ->
            [tag |-> "Raw", icmp_type |-> icmp_type, icmp_code |-> icmp_code,
             four_bytes |-> four_bytes]

Icmp6Type_from_bytes(icmp_type, icmp_code, four_bytes) ==
    CASE icmp_type = TYPE_DST_UNREACH ->
            [tag |-> "DestinationUnreachable",
             f0 |-> Icmp6DestUnreachable_from_bytes(icmp_code, four_bytes)]
      [] icmp_type = TYPE_PACKET_TOO_BIG ->
            [tag |-> "PacketTooBig", mtu |-> u32_from_be_bytes(four_bytes)]
      [] icmp_type = TYPE_TIME_EXCEEDED ->
            [tag |-> "TimeExceeded", code |-> Icmp6TimeExceededCode_from(icmp_code)]
      [] icmp_type = TYPE_PARAM_PROB ->
            [tag |-> "ParameterProblem",
             code |-> Icmp6ParameterProblemCode_from(icmp_code),
             pointer |-> u32_from_be_bytes(four_bytes)]
      [] icmp_type = TYPE_ECHO_REQUEST ->
            [tag |-> "EchoRequest", f0 |-> IcmpEchoHeader_from_bytes(four_bytes)]
      [] icmp_type = TYPE_ECHO_REPLY ->
            [tag |-> "EchoReply", f0 |-> IcmpEchoHeader_from_bytes(four_bytes)]
      [] OTHER ->
            [tag |-> "Raw", icmp_type |-> icmp_type, icmp_code |-> icmp_code,
             four_bytes |-> four_bytes]

\* The result of Icmp6Type::to_bytes as a record (icmp_type, icmp_code, four_bytes).
Triple(t, c, f) == [icmp_type |-> t, icmp_code |-> c, four_bytes |-> f]

\* Icmp6Type::to_bytes with a time-exceeded message written under the type byte of
\* destination-unreachable.
Icmp6Type_to_bytes_time_exceeded_type_one(m) ==
    CASE m.tag = "Raw" -> Triple(m.icmp_type, m.icmp_code, m.four_bytes)
      [] m.tag = "DestinationUnreachable" ->
            Triple(TYPE_DST_UNREACH, Icmp6DestUnreachable_code(m.f0), Zero4)
      [] m.tag = "PacketTooBig" -> Triple(TYPE_PACKET_TOO_BIG, 0, u32_to_be_bytes(m.mtu))
      [] m.tag = "TimeExceeded" ->
            Triple(TYPE_DST_UNREACH, Icmp6TimeExceededCode_into_u8(m.code), Zero4)
      [] m.tag = "ParameterProblem" ->
            Triple(TYPE_PARAM_PROB, Icmp6ParameterProblemCode_into_u8(m.code),
                   u32_to_be_bytes(m.pointer))
      [] m.tag = "EchoRequest" -> Triple(TYPE_ECHO_REQUEST, 0, IcmpEchoHeader_to_bytes(m.f0))
      [] m.tag = "EchoReply" -> Triple(TYPE_ECHO_REPLY, 0, IcmpEchoHeader_to_bytes(m.f0))

\* Icmp6Type::to_bytes with the code of a parameter-problem message written as 0,
\* as it is for the variants that have no code.
Icmp6Type_to_bytes_param_code_zero(m) ==
    CASE m.tag = "Raw" -> Triple(m.icmp_type, m.icmp_code, m.four_bytes)
      [] m.tag = "DestinationUnreachable" ->
            Triple(TYPE_DST_UNREACH, Icmp6DestUnreachable_code(m.f0), Zero4)
      [] m.tag = "PacketTooBig" -> Triple(TYPE_PACKET_TOO_BIG, 0, u32_to_be_bytes(m.mtu))
      [] m.tag = "TimeExceeded" ->
            Triple(TYPE_TIME_EXCEEDED, Icmp6TimeExceededCode_into_u8(m.code), Zero4)
      [] m.tag = "ParameterProblem" -> Triple(TYPE_PARAM_PROB, 0, u32_to_be_bytes(m.pointer))
      [] m.tag = "EchoRequest" -> Triple(TYPE_ECHO_REQUEST, 0, IcmpEchoHeader_to_bytes(m.f0))
      [] m.tag = "EchoReply" -> Triple(TYPE_ECHO_REPLY, 0, IcmpEchoHeader_to_bytes(m.f0))

\* Icmp6Type::to_bytes with the mtu of a packet-too-big message written little-endian.
Icmp6Type_to_bytes_mtu_little_endian(m) ==
    CASE m.tag = "Raw" -> Triple(m.icmp_type, m.icmp_code, m.four_bytes)
      [] m.tag = "DestinationUnreachable" ->
            Triple(TYPE_DST_UNREACH, Icmp6DestUnreachable_code(m.f0), Zero4)
      [] m.tag = "PacketTooBig" ->
            Triple(TYPE_PACKET_TOO_BIG, 0,
                   <<m.mtu[2] % 256, m.mtu[2] \div 256, m.mtu[1] % 256, m.mtu[1] \div 256>>)
      [] m.tag = "TimeExceeded" ->
            Triple(TYPE_TIME_EXCEEDED, Icmp6TimeExceededCode_into_u8(m.code), Zero4)
      [] m.tag = "ParameterProblem" ->
            Triple(TYPE_PARAM_PROB, Icmp6ParameterProblemCode_into_u8(m.code),
                   u32_to_be_bytes(m.pointer))
      [] m.tag = "EchoRequest" -> Triple(TYPE_ECHO_REQUEST, 0, IcmpEchoHeader_to_bytes(m.f0))
      [] m.tag = "EchoReply" -> Triple(TYPE_ECHO_REPLY, 0, IcmpEchoHeader_to_bytes(m.f0))

Icmp6Type_to_bytes(m) ==
    CASE m.tag = "Raw" -> Triple(m.icmp_type, m.icmp_code, m.four_bytes)
      [] m.tag = "DestinationUnreachable" ->
            Triple(TYPE_DST_UNREACH, Icmp6DestUnreachable_code(m.f0), Zero4)
      [] m.tag = "PacketTooBig" -> Triple(TYPE_PACKET_TOO_BIG, 0, u32_to_be_bytes(m.mtu))
      [] m.tag = "TimeExceeded" ->
            Triple(TYPE_TIME_EXCEEDED, Icmp6TimeExceededCode_into_u8(m.code), Zero4)
      [] m.tag = "ParameterProblem" ->
            Triple(TYPE_PARAM_PROB, Icmp6ParameterProblemCode_into_u8(m.code),
                   u32_to_be_bytes(m.pointer))
      [] m.tag = "EchoRequest" -> Triple(TYPE_ECHO_REQUEST, 0, IcmpEchoHeader_to_bytes(m.f0))
      [] m.tag = "EchoReply" -> Triple(TYPE_ECHO_REPLY, 0, IcmpEchoHeader_to_bytes(m.f0))

(***************************************************************************)
(* SpecIcmp: a byte triple is decoded, then the value is encoded again.    *)
(***************************************************************************)
NoMsg == [tag |-> "None"]
NoWire == [tag |-> "None"]

\* Inputs: every type byte, the codes 0..MaxCode and 255, a few four_bytes.
TypeInputs == Byte
CodeInputs == (0..MaxCode) \cup {255}
FourInputs == {Zero4, <<0, 0, 5, 208>>, <<9, 9, 9, 9>>, <<0, 0, 0, 1>>,
               <<128, 0, 0, 0>>, <<255, 255, 255, 255>>}

IdleIcmp == triple = Triple(0, 0, Zero4) /\ msg = NoMsg /\ wire = NoWire
IdleView == vin = <<>> /\ view = [tag |-> "None"] /\ vret = [op |-> "none"]
IdleHdr == hdr = [tag |-> "None"] /\ arg = [op |-> "none"] /\ ret = [op |-> "none"]
IdleIh ==
    /\ ihdr = [tag |-> "None"]
    /\ iarg = [op |-> "none"]
    /\ iret = [op |-> "none"]
    /\ assigned = 0

InitIcmp ==
    /\ triple \in {Triple(t, c, f) : t \in TypeInputs, c \in CodeInputs, f \in FourInputs}
    /\ msg = NoMsg
    /\ wire = NoWire
    /\ IdleView
    /\ IdleHdr
    /\ IdleIh

\* let m = Icmp6Type::from_bytes(t, c, f)
Decode ==
    /\ msg = NoMsg
    /\ msg' = Icmp6Type_from_bytes(triple.icmp_type, triple.icmp_code, triple.four_bytes)
    /\ UNCHANGED <<triple, wire, viewVars, hdrVars, ihVars>>

\* let (t, c, f) = m.to_bytes()
Encode ==
    /\ msg # NoMsg
    /\ wire = NoWire
    /\ wire' = Icmp6Type_to_bytes(msg)
    /\ UNCHANGED <<triple, msg, viewVars, hdrVars, ihVars>>

NextIcmp == Decode \/ Encode

SpecIcmp == InitIcmp /\ [][NextIcmp]_vars

(***************************************************************************)
(* Results: Ok(value) and Err(error).                                      *)
(***************************************************************************)
Ok(v) == [ok |-> TRUE, val |-> v]
Err(e) == [ok |-> FALSE, err |-> e]

\* ValueError variants raised by the extension header, each carrying a length.
Ipv6ExtensionPayloadTooSmall(n) == [kind |-> "Ipv6ExtensionPayloadTooSmall", val |-> n]
Ipv6ExtensionPayloadTooLarge(n) == [kind |-> "Ipv6ExtensionPayloadTooLarge", val |-> n]
Ipv6ExtensionPayloadLengthUnaligned(n) ==
    [kind |-> "Ipv6ExtensionPayloadLengthUnaligned", val |-> n]

\* ReadError variants.
UnexpectedEndOfSlice(n) == [kind |-> "UnexpectedEndOfSlice", val |-> n]
IoError == [kind |-> "IoError", val |-> "UnexpectedEof"]

\* Result::unwrap: the value, or a panic.
Panicked == [tag |-> "panic"]
unwrap(r) == IF r.ok THEN r.val ELSE Panicked

(***************************************************************************)
(* struct Ipv6RawExtensionHeader                                           *)
(*   { next_header: u8, header_length: u8, payload_buffer: [u8; 2046] }    *)
(***************************************************************************)
MIN_PAYLOAD_LEN == 6
MAX_PAYLOAD_LEN == 2046

\* ip_number: the protocol numbers of the extension headers with this layout.
IPV6_HOP_BY_HOP == 0
IPV6_ROUTE == 43
IPV6_DEST_OPTIONS == 60
MOBILITY == 135
HIP == 139
SHIM6 == 140

\* header_type_supported taking the Authentication Header (51) as supported too.
Ipv6RawExtensionHeader_header_type_supported_with_auth(next_header) ==
    next_header \in {IPV6_HOP_BY_HOP, IPV6_ROUTE, IPV6_DEST_OPTIONS, MOBILITY, HIP, SHIM6, 51}

\* fn header_type_supported(next_header: u8) -> bool
Ipv6RawExtensionHeader_header_type_supported(next_header) ==
    next_header \in {IPV6_HOP_BY_HOP, IPV6_ROUTE, IPV6_DEST_OPTIONS, MOBILITY, HIP, SHIM6}

\* `as u8`
as_u8(n) == n % 256

\* [0; Self::MAX_PAYLOAD_LEN]
ZeroBuffer == [i \in 1..MAX_PAYLOAD_LEN |-> 0]

\* new_raw with the minimum length excluded (<= instead of <).
Ipv6RawExtensionHeader_new_raw_min_exclusive(next_header, payload) ==
    IF Len(payload) <= MIN_PAYLOAD_LEN
    THEN Err(Ipv6ExtensionPayloadTooSmall(Len(payload)))
    ELSE IF Len(payload) > MAX_PAYLOAD_LEN
    THEN Err(Ipv6ExtensionPayloadTooLarge(Len(payload)))
    ELSE IF 0 # (Len(payload) + 2) % 8
    THEN Err(Ipv6ExtensionPayloadLengthUnaligned(Len(payload)))
    ELSE Ok([next_header |-> next_header,
             header_length |-> as_u8((Len(payload) - 6) \div 8),
             payload_buffer |->
                 payload \o SubSeq(ZeroBuffer, Len(payload) + 1, MAX_PAYLOAD_LEN)])

\* new_raw with the maximum length excluded (>= instead of >).
Ipv6RawExtensionHeader_new_raw_max_exclusive(next_header, payload) ==
    IF Len(payload) < MIN_PAYLOAD_LEN
    THEN Err(Ipv6ExtensionPayloadTooSmall(Len(payload)))
    ELSE IF Len(payload) >= MAX_PAYLOAD_LEN
    THEN Err(Ipv6ExtensionPayloadTooLarge(Len(payload)))
    ELSE IF 0 # (Len(payload) + 2) % 8
    THEN Err(Ipv6ExtensionPayloadLengthUnaligned(Len(payload)))
    ELSE Ok([next_header |-> next_header,
             header_length |-> as_u8((Len(payload) - 6) \div 8),
             payload_buffer |->
                 payload \o SubSeq(ZeroBuffer, Len(payload) + 1, MAX_PAYLOAD_LEN)])

Ipv6RawExtensionHeader_new_raw(next_header, payload) ==
    IF Len(payload) < MIN_PAYLOAD_LEN
    THEN Err(Ipv6ExtensionPayloadTooSmall(Len(payload)))
    ELSE IF Len(payload) > MAX_PAYLOAD_LEN
    THEN Err(Ipv6ExtensionPayloadTooLarge(Len(payload)))
    ELSE IF 0 # (Len(payload) + 2) % 8
    THEN Err(Ipv6ExtensionPayloadLengthUnaligned(Len(payload)))
    ELSE Ok([next_header |-> next_header,
             header_length |-> as_u8((Len(payload) - 6) \div 8),
             payload_buffer |->
                 payload \o SubSeq(ZeroBuffer, Len(payload) + 1, MAX_PAYLOAD_LEN)])

\* payload() without the 6 bytes that share the first 8 octets with the two fixed bytes.
Ipv6RawExtensionHeader_payload_without_first_six(self) ==
    SubSeq(self.payload_buffer, 1, self.header_length * 8)

\* fn payload(&self) -> &[u8]
Ipv6RawExtensionHeader_payload(self) ==
    SubSeq(self.payload_buffer, 1, 6 + self.header_length * 8)

\* PartialEq as #[derive] would write it: every field, the whole buffer included.
Ipv6RawExtensionHeader_eq_whole_buffer(self, other) ==
    /\ self.next_header = other.next_header
    /\ self.header_length = other.header_length
    /\ self.payload_buffer = other.payload_buffer

\* impl PartialEq for Ipv6RawExtensionHeader
Ipv6RawExtensionHeader_eq(self, other) ==
    /\ self.next_header = other.next_header
    /\ Ipv6RawExtensionHeader_payload(self) = Ipv6RawExtensionHeader_payload(other)

\* set_payload copying the payload before it checks the alignment.
Ipv6RawExtensionHeader_set_payload_copy_before_alignment(self, payload) ==
    IF Len(payload) < MIN_PAYLOAD_LEN
    THEN [self |-> self, result |-> Err(Ipv6ExtensionPayloadTooSmall(Len(payload)))]
    ELSE IF Len(payload) > MAX_PAYLOAD_LEN
    THEN [self |-> self, result |-> Err(Ipv6ExtensionPayloadTooLarge(Len(payload)))]
    ELSE LET copied == [self EXCEPT
                          !.payload_buffer =
                              payload \o SubSeq(@, Len(payload) + 1, MAX_PAYLOAD_LEN)]
         IN  IF 0 # (Len(payload) + 2) % 8
             THEN [self |-> copied,
                   result |-> Err(Ipv6ExtensionPayloadLengthUnaligned(Len(payload)))]
             ELSE [self |-> [copied EXCEPT
                               !.header_length = as_u8((Len(payload) - 6) \div 8)],
                   result |-> Ok(<<>>)]

\* set_payload checking the alignment before the range.
Ipv6RawExtensionHeader_set_payload_alignment_first(self, payload) ==
    IF 0 # (Len(payload) + 2) % 8
    THEN [self |-> self, result |-> Err(Ipv6ExtensionPayloadLengthUnaligned(Len(payload)))]
    ELSE IF Len(payload) < MIN_PAYLOAD_LEN
    THEN [self |-> self, result |-> Err(Ipv6ExtensionPayloadTooSmall(Len(payload)))]
    ELSE IF Len(payload) > MAX_PAYLOAD_LEN
    THEN [self |-> self, result |-> Err(Ipv6ExtensionPayloadTooLarge(Len(payload)))]
    ELSE [self |-> [self EXCEPT
                      !.payload_buffer =
                          payload \o SubSeq(@, Len(payload) + 1, MAX_PAYLOAD_LEN),
                      !.header_length = as_u8((Len(payload) - 6) \div 8)],
          result |-> Ok(<<>>)]

\* fn set_payload(&mut self, payload) -> Result<(), ValueError>: the record after the
\* call and the value returned.
Ipv6RawExtensionHeader_set_payload(self, payload) ==
    IF Len(payload) < MIN_PAYLOAD_LEN
    THEN [self |-> self, result |-> Err(Ipv6ExtensionPayloadTooSmall(Len(payload)))]
    ELSE IF Len(payload) > MAX_PAYLOAD_LEN
    THEN [self |-> self, result |-> Err(Ipv6ExtensionPayloadTooLarge(Len(payload)))]
    ELSE IF 0 # (Len(payload) + 2) % 8
    THEN [self |-> self, result |-> Err(Ipv6ExtensionPayloadLengthUnaligned(Len(payload)))]
    ELSE [self |-> [self EXCEPT
                      !.payload_buffer =
                          payload \o SubSeq(@, Len(payload) + 1, MAX_PAYLOAD_LEN),
                      !.header_length = as_u8((Len(payload) - 6) \div 8)],
          result |-> Ok(<<>>)]

\* header_len without the two bytes in front of the payload.
Ipv6RawExtensionHeader_header_len_without_prefix(self) == 6 + self.header_length * 8

\* fn header_len(&self) -> usize
Ipv6RawExtensionHeader_header_len(self) == 2 + (6 + self.header_length * 8)

\* io::Read::read_exact on a reader [data, pos]: the bytes and the reader after the
\* call, or an error when fewer than n bytes are left.
read_exact(reader, n) ==
    IF Len(reader.data) - reader.pos < n
    THEN Err(IoError)
    ELSE Ok([bytes |-> SubSeq(reader.data, reader.pos + 1, reader.pos + n),
             reader |-> [reader EXCEPT !.pos = @ + n]])

\* read taking the whole announced length after the two bytes it already took.
Ipv6RawExtensionHeader_read_whole_length(reader) ==
    LET d == read_exact(reader, 2) IN
    IF ~d.ok THEN [reader |-> reader, result |-> Err(d.err)]
    ELSE LET next_header == d.val.bytes[1]
             header_length == d.val.bytes[2]
             b == read_exact(d.val.reader, (header_length + 1) * 8)
         IN  IF ~b.ok THEN [reader |-> d.val.reader, result |-> Err(b.err)]
             ELSE [reader |-> b.val.reader,
                   result |->
                       Ok([next_header |-> next_header,
                           header_length |-> header_length,
                           payload_buffer |->
                               SubSeq(b.val.bytes, 1, header_length * 8 + 6)
                                   \o SubSeq(ZeroBuffer, header_length * 8 + 6 + 1,
                                             MAX_PAYLOAD_LEN)])]

\* fn read(reader) -> Result<Ipv6RawExtensionHeader, ReadError>: the reader after the
\* call and the value returned.
Ipv6RawExtensionHeader_read(reader) ==
    LET d == read_exact(reader, 2) IN
    IF ~d.ok THEN [reader |-> reader, result |-> Err(d.err)]
    ELSE LET next_header == d.val.bytes[1]
             header_length == d.val.bytes[2]
             b == read_exact(d.val.reader, header_length * 8 + 6)
         IN  IF ~b.ok THEN [reader |-> d.val.reader, result |-> Err(b.err)]
             ELSE [reader |-> b.val.reader,
                   result |->
                       Ok([next_header |-> next_header,
                           header_length |-> header_length,
                           payload_buffer |->
                               b.val.bytes
                                   \o SubSeq(ZeroBuffer, header_length * 8 + 6 + 1,
                                             MAX_PAYLOAD_LEN)])]

\* io::Write::write_all on a sink [data, room]: the sink after the call and whether
\* all of the bytes were taken; a sink short of room takes what fits and fails.
write_all(sink, bytes) ==
    IF Len(bytes) <= sink.room
    THEN [sink |-> [data |-> sink.data \o bytes, room |-> sink.room - Len(bytes)], ok |-> TRUE]
    ELSE [sink |-> [data |-> sink.data \o SubSeq(bytes, 1, sink.room), room |-> 0],
          ok |-> FALSE]

\* write emitting the header length in whole 8-octet units as the length byte.
Ipv6RawExtensionHeader_write_length_in_units(self, writer) ==
    LET w1 == write_all(writer, <<self.next_header, as_u8(self.header_length + 1)>>) IN
    IF ~w1.ok THEN [writer |-> w1.sink, result |-> Err(IoError)]
    ELSE LET w2 == write_all(w1.sink, Ipv6RawExtensionHeader_payload(self)) IN
         IF ~w2.ok THEN [writer |-> w2.sink, result |-> Err(IoError)]
         ELSE [writer |-> w2.sink, result |-> Ok(<<>>)]

\* fn write(&self, writer) -> Result<(), WriteError>
Ipv6RawExtensionHeader_write(self, writer) ==
    LET w1 == write_all(writer, <<self.next_header, self.header_length>>) IN
    IF ~w1.ok THEN [writer |-> w1.sink, result |-> Err(IoError)]
    ELSE LET w2 == write_all(w1.sink, Ipv6RawExtensionHeader_payload(self)) IN
         IF ~w2.ok THEN [writer |-> w2.sink, result |-> Err(IoError)]
         ELSE [writer |-> w2.sink, result |-> Ok(<<>>)]

(***************************************************************************)
(* struct Ipv6RawExtensionHeaderSlice { slice: &[u8] }                     *)
(***************************************************************************)
\* fn header_type_supported(next_header: u8) -> bool
Ipv6RawExtensionHeaderSlice_header_type_supported(next_header) ==
    Ipv6RawExtensionHeader_header_type_supported(next_header)

\* from_slice taking the length byte as the number of 8-octet units.
Ipv6RawExtensionHeaderSlice_from_slice_len_in_units(slice) ==
    IF Len(slice) < 8
    THEN Err(UnexpectedEndOfSlice(8))
    ELSE LET len == slice[2] * 8 IN
         IF Len(slice) < len
         THEN Err(UnexpectedEndOfSlice(len))
         ELSE Ok([slice |-> SubSeq(slice, 1, len)])

\* from_slice keeping the whole input instead of narrowing it.
Ipv6RawExtensionHeaderSlice_from_slice_not_narrowed(slice) ==
    IF Len(slice) < 8
    THEN Err(UnexpectedEndOfSlice(8))
    ELSE LET len == (slice[2] + 1) * 8 IN
         IF Len(slice) < len
         THEN Err(UnexpectedEndOfSlice(len))
         ELSE Ok([slice |-> slice])

Ipv6RawExtensionHeaderSlice_from_slice(slice) ==
    IF Len(slice) < 8
    THEN Err(UnexpectedEndOfSlice(8))
    ELSE LET len == (slice[2] + 1) * 8 IN
         IF Len(slice) < len
         THEN Err(UnexpectedEndOfSlice(len))
         ELSE Ok([slice |-> SubSeq(slice, 1, len)])

\* fn slice(&self) -> &[u8]
Ipv6RawExtensionHeaderSlice_slice(self) == self.slice

\* fn next_header(&self) -> u8
Ipv6RawExtensionHeaderSlice_next_header(self) == self.slice[1]

\* fn payload(&self) -> &[u8]
Ipv6RawExtensionHeaderSlice_payload(self) == SubSeq(self.slice, 3, Len(self.slice))

\* fn to_header(&self) -> Ipv6RawExtensionHeader: the record, or a panic of the unwrap.
Ipv6RawExtensionHeaderSlice_to_header(self) ==
    unwrap(Ipv6RawExtensionHeader_new_raw(
               Ipv6RawExtensionHeaderSlice_next_header(self),
               Ipv6RawExtensionHeaderSlice_payload(self)))

\* fn Ipv6RawExtensionHeader::from_slice(slice) -> Result<(header, rest), ReadError>
Ipv6RawExtensionHeader_from_slice(slice) ==
    LET s == Ipv6RawExtensionHeaderSlice_from_slice(slice) IN
    IF ~s.ok THEN Err(s.err)
    ELSE LET rest == SubSeq(slice, Len(Ipv6RawExtensionHeaderSlice_slice(s.val)) + 1,
                            Len(slice))
             header == Ipv6RawExtensionHeaderSlice_to_header(s.val)
         IN  IF header = Panicked THEN Panicked
             ELSE Ok([header |-> header, rest |-> rest])

(***************************************************************************)
(* Inputs of the extension header specifications.                          *)
(***************************************************************************)
\* Byte i of the test pattern number seed.
Pat(i, seed) == (i * 3 + seed * 85) % 256

PatternSeeds == {1, 2}
NextHeaderInputs == {6, 255}

\* Payload lengths tried: around both ends of the valid range, aligned or not.
PayloadLens ==
    {0, 5, 6, 7, 13, 14, 15, 22, MAX_PAYLOAD_LEN - 8, MAX_PAYLOAD_LEN - 1, MAX_PAYLOAD_LEN,
     MAX_PAYLOAD_LEN + 1, MAX_PAYLOAD_LEN + 8, 3000}

\* The test patterns, long enough for every input.
PatternTable == [seed \in 1..3 |-> [i \in 1..3000 |-> Pat(i, seed)]]

\* A payload of n bytes.
Pattern(n, seed) == SubSeq(PatternTable[seed], 1, n)

\* Trailing bytes.
Trail(n, seed) == SubSeq(PatternTable[seed + 1], 2, n + 1)

\* The first n bytes of: next header nh, length byte lb, the pattern payload that lb
\* announces, then MaxTrail trailing bytes.
SliceBytes(nh, lb, seed, n) ==
    SubSeq(<<nh, lb>> \o Pattern((lb + 1) * 8 - 2, seed) \o Trail(MaxTrail, seed), 1, n)

\* Slice lengths tried for length byte lb: too short for the fixed part, one short of
\* the announced length, exactly it, and up to MaxTrail more.
SliceLens(lb) ==
    {n \in {0, 1, 7, 8, 10} : n <= (lb + 1) * 8 + MaxTrail}
        \cup {(lb + 1) * 8 - 1} \cup {(lb + 1) * 8 + k : k \in 0..MaxTrail}

\* Length bytes and lengths tried for the inputs decoded into a record.
LenByteInputs == {0, 1, 254, 255}
ReadLens(lb) == {1, (lb + 1) * 8 - 1, (lb + 1) * 8, (lb + 1) * 8 + MaxTrail}

\* The payloads handed to new_raw and set_payload.
PayloadInputs == {Pattern(n, seed) : n \in PayloadLens, seed \in PatternSeeds}

\* The byte sequences handed to read and to Ipv6RawExtensionHeader::from_slice.
DecodeInputs ==
    UNION {{SliceBytes(nh, lb, seed, n) : n \in ReadLens(lb)} :
               nh \in NextHeaderInputs, lb \in LenByteInputs, seed \in PatternSeeds}

\* The bytes that follow a written header.
TrailInputs == {Trail(k, seed) : k \in 0..MaxTrail, seed \in PatternSeeds}

\* Room of the sinks written to: none for the length byte, none for a payload beyond
\* the shortest, enough for every header.
SinkRooms == {1, 8, 4096}

NoHeader == [tag |-> "None"]
NoView == [tag |-> "None"]
NoError == [kind |-> "None"]

(***************************************************************************)
(* SpecView: a view is built over an input slice, then copied to a record. *)
(***************************************************************************)
InitView ==
    /\ \E nh \in NextHeaderInputs, lb \in Byte, seed \in PatternSeeds :
         \E n \in SliceLens(lb) : vin = SliceBytes(nh, lb, seed, n)
    /\ view = NoView
    /\ vret = [op |-> "none"]
    /\ IdleIcmp
    /\ IdleHdr
    /\ IdleIh

\* let view = Ipv6RawExtensionHeaderSlice::from_slice(vin)
SliceFromSlice ==
    /\ vret.op = "none"
    /\ LET r == Ipv6RawExtensionHeaderSlice_from_slice(vin) IN
         /\ view' = IF r.ok THEN r.val ELSE NoView
         /\ vret' = [op |-> "from_slice", ok |-> r.ok,
                     err |-> IF r.ok THEN NoError ELSE r.err]
    /\ UNCHANGED <<vin, icmpVars, hdrVars, ihVars>>

\* let header = view.to_header()
SliceToHeader ==
    /\ vret.op = "from_slice"
    /\ view # NoView
    /\ LET h == Ipv6RawExtensionHeaderSlice_to_header(view) IN
         vret' = [op |-> "to_header", ok |-> h # Panicked, header |-> h]
    /\ UNCHANGED <<vin, view, icmpVars, hdrVars, ihVars>>

NextView == SliceFromSlice \/ SliceToHeader

SpecView == InitView /\ [][NextView]_vars

(***************************************************************************)
(* Spec: an Ipv6RawExtensionHeader is created, mutated, written and        *)
(* decoded again, in any order.  The caller makes one call at a time: arg  *)
(* and ret hold the argument and the return value of the call just made,   *)
(* and are dropped before the next call.                                   *)
(***************************************************************************)
Init ==
    /\ hdr = NoHeader
    /\ arg = [op |-> "none"]
    /\ ret = [op |-> "none"]
    /\ IdleIcmp
    /\ IdleView
    /\ IdleIh

\* The return value of a call that gives no data back.
Returned(op, r) == [op |-> op, ok |-> r.ok, err |-> IF r.ok THEN NoError ELSE r.err]

\* No call is pending inspection.
Idle == ret.op = "none"

\* hdr = Ipv6RawExtensionHeader::new_raw(x, payload)?
NewRaw(x, payload) ==
    LET r == Ipv6RawExtensionHeader_new_raw(x, payload) IN
    /\ Idle
    /\ arg' = [op |-> "new_raw", next_header |-> x, payload |-> payload]
    /\ ret' = Returned("new_raw", r)
    /\ hdr' = IF r.ok THEN r.val ELSE hdr
    /\ UNCHANGED <<icmpVars, viewVars, ihVars>>

\* hdr.set_payload(payload)
SetPayload(payload) ==
    /\ Idle
    /\ hdr # NoHeader
    /\ LET r == Ipv6RawExtensionHeader_set_payload(hdr, payload) IN
         /\ arg' = [op |-> "set_payload", payload |-> payload]
         /\ ret' = Returned("set_payload", r.result)
         /\ hdr' = r.self
    /\ UNCHANGED <<icmpVars, viewVars, ihVars>>

\* hdr = Ipv6RawExtensionHeader::read(&mut Cursor::new(data))?
Read(data) ==
    LET r == Ipv6RawExtensionHeader_read([data |-> data, pos |-> 0]) IN
    /\ Idle
    /\ arg' = [op |-> "read", data |-> data]
    /\ ret' = [op |-> "read", ok |-> r.result.ok,
               err |-> IF r.result.ok THEN NoError ELSE r.result.err,
               pos |-> r.reader.pos]
    /\ hdr' = IF r.result.ok THEN r.result.val ELSE hdr
    /\ UNCHANGED <<icmpVars, viewVars, ihVars>>

\* hdr.write(&mut sink), the sink empty with the given room
Write(room) ==
    /\ Idle
    /\ hdr # NoHeader
    /\ LET w == Ipv6RawExtensionHeader_write(hdr, [data |-> <<>>, room |-> room]) IN
         /\ arg' = [op |-> "write", room |-> room]
         /\ ret' = [op |-> "write", ok |-> w.result.ok,
                    err |-> IF w.result.ok THEN NoError ELSE w.result.err,
                    written |-> w.writer.data]
    /\ UNCHANGED <<hdr, icmpVars, viewVars, ihVars>>

\* Ipv6RawExtensionHeader::from_slice(slice); written tells that slice is what the last
\* call wrote followed by trail.
FromSlice(slice, written, trail) ==
    LET r == Ipv6RawExtensionHeader_from_slice(slice) IN
    /\ arg' = [op |-> "from_slice", slice |-> slice, written |-> written, trail |-> trail]
    /\ ret' = IF r = Panicked THEN [op |-> "from_slice", ok |-> FALSE, err |-> Panicked]
              ELSE IF r.ok
              THEN [op |-> "from_slice", ok |-> TRUE, err |-> NoError,
                    header |-> r.val.header, rest |-> r.val.rest]
              ELSE [op |-> "from_slice", ok |-> FALSE, err |-> r.err]
    /\ UNCHANGED <<hdr, icmpVars, viewVars, ihVars>>

\* Decode a generated byte sequence.
FromSliceInput(slice) ==
    /\ Idle
    /\ FromSlice(slice, FALSE, <<>>)

\* Decode what the last call wrote, followed by some trailing bytes.
FromSliceWritten(trail) ==
    /\ ret.op = "write"
    /\ ret.ok
    /\ FromSlice(ret.written \o trail, TRUE, trail)

\* The caller drops the argument and the return value of the last call.
Drop ==
    /\ ~Idle
    /\ arg' = [op |-> "none"]
    /\ ret' = [op |-> "none"]
    /\ UNCHANGED <<hdr, icmpVars, viewVars, ihVars>>

Next ==
    \/ \E x \in NextHeaderInputs, payload \in PayloadInputs : NewRaw(x, payload)
    \/ \E payload \in PayloadInputs : SetPayload(payload)
    \/ \E data \in DecodeInputs : Read(data)
    \/ \E room \in SinkRooms : Write(room)
    \/ \E slice \in DecodeInputs : FromSliceInput(slice)
    \/ \E trail \in TrailInputs : FromSliceWritten(trail)
    \/ Drop

Spec == Init /\ [][Next]_vars

(***************************************************************************)
(* SpecSupported: a protocol number is classified by both                  *)
(* header_type_supported functions.                                        *)
(***************************************************************************)
InitSupported ==
    /\ hdr = NoHeader
    /\ arg \in {[op |-> "header_type_supported", next_header |-> p] : p \in Byte}
    /\ ret = [op |-> "none"]
    /\ IdleIcmp
    /\ IdleView
    /\ IdleIh

\* Ipv6RawExtensionHeader::header_type_supported(p) and
\* Ipv6RawExtensionHeaderSlice::header_type_supported(p)
HeaderTypeSupported ==
    /\ ret.op = "none"
    /\ ret' = [op |-> "header_type_supported",
               header |-> Ipv6RawExtensionHeader_header_type_supported(arg.next_header),
               slice |-> Ipv6RawExtensionHeaderSlice_header_type_supported(arg.next_header)]
    /\ UNCHANGED <<hdr, arg, icmpVars, viewVars, ihVars>>

NextSupported == HeaderTypeSupported

SpecSupported == InitSupported /\ [][NextSupported]_vars

(***************************************************************************)
(* usize arithmetic on pairs <<hi, lo>> (value hi * 65536 + lo).            *)
(***************************************************************************)
\* The usize of a small natural.
usize(n) == <<n \div 65536, n % 65536>>

\* a + b
usize_add(a, b) ==
    LET lo == a[2] + b[2] IN <<a[1] + b[1] + (lo \div 65536), lo % 65536>>

\* a - b, for b <= a
usize_sub(a, b) ==
    IF a[2] >= b[2] THEN <<a[1] - b[1], a[2] - b[2]>>
    ELSE <<a[1] - b[1] - 1, a[2] + 65536 - b[2]>>

\* a < b
usize_lt(a, b) == a[1] < b[1] \/ (a[1] = b[1] /\ a[2] < b[2])

\* `as u16`
as_u16(a) == a[2]

\* std::u32::MAX as usize
u32_MAX == <<65535, 65535>>

(***************************************************************************)
(* A payload slice &[u8] of the checksum computation.  Payloads of up to   *)
(* more than u32::MAX bytes are needed: a slice is kept as the bytes head  *)
(* followed by a run of zeros zero bytes.                                  *)
(***************************************************************************)
\* payload.len()
slice_len(payload) == usize_add(usize(Len(payload.head)), payload.zeros)

(***************************************************************************)
(* checksum::Sum16BitWords: the running 16-bit one's-complement sum, kept  *)
(* in the byte order of the host (le: the host is little-endian).          *)
(***************************************************************************)
\* u16::from_ne_bytes
u16_from_ne_bytes(b, le) == IF le THEN b[2] * 256 + b[1] ELSE b[1] * 256 + b[2]

\* u16::swap_bytes
u16_swap_bytes(v) == (v % 256) * 256 + (v \div 256)

\* Sum16BitWords::new()
Sum16BitWords_new == 0

\* Addition with end-around carry.
ones_complement_add(sum, word) ==
    LET t == sum + word IN (t % 65536) + (t \div 65536)

\* Sum16BitWords::add_2bytes
Sum16BitWords_add_2bytes(sum, b, le) == ones_complement_add(sum, u16_from_ne_bytes(b, le))

\* Sum16BitWords::add_4bytes
Sum16BitWords_add_4bytes(sum, b, le) ==
    Sum16BitWords_add_2bytes(Sum16BitWords_add_2bytes(sum, <<b[1], b[2]>>, le),
                             <<b[3], b[4]>>, le)

\* Sum16BitWords::add_slice on a sequence of bytes: 16-bit words, a last odd byte
\* padded with a zero byte.
RECURSIVE Sum16BitWords_add_bytes(_, _, _)
Sum16BitWords_add_bytes(sum, s, le) ==
    IF Len(s) = 0 THEN sum
    ELSE IF Len(s) = 1 THEN Sum16BitWords_add_2bytes(sum, <<s[1], 0>>, le)
    ELSE Sum16BitWords_add_bytes(Sum16BitWords_add_2bytes(sum, <<s[1], s[2]>>, le),
                                 SubSeq(s, 3, Len(s)), le)

\* Sum16BitWords::add_16bytes
Sum16BitWords_add_16bytes(sum, b, le) == Sum16BitWords_add_bytes(sum, b, le)

\* Sum16BitWords::add_slice on a payload: the words of head, its last odd byte paired
\* with a zero byte; the words of the run of zero bytes add nothing.
Sum16BitWords_add_slice(sum, payload, le) == Sum16BitWords_add_bytes(sum, payload.head, le)

\* Sum16BitWords::ones_complement
Sum16BitWords_ones_complement(sum) == 65535 - sum

\* u16::to_be
u16_to_be(v, le) == IF le THEN u16_swap_bytes(v) ELSE v

(***************************************************************************)
(* struct Icmp6Header { icmp_type: Icmp6Type, icmp_chksum: u16 }           *)
(***************************************************************************)
Icmp6Header_SERIALIZED_SIZE == 8
Icmp4Header_SERIALIZED_SIZE == 8
IPV6_ICMP == 58

\* ValueError::Ipv6PayloadLengthTooLarge(usize)
Ipv6PayloadLengthTooLarge(n) == [kind |-> "Ipv6PayloadLengthTooLarge", val |-> n]

\* fn header_len(&self) -> usize
Icmp6Header_header_len(self) == 8

\* new leaving the checksum at all ones instead of zero.
Icmp6Header_new_chksum_all_ones(icmp_type) == [icmp_type |-> icmp_type, icmp_chksum |-> 65535]

\* fn new(icmp_type: Icmp6Type) -> Icmp6Header
Icmp6Header_new(icmp_type) == [icmp_type |-> icmp_type, icmp_chksum |-> 0]

\* write emitting the checksum after the four bytes instead of before them.
Icmp6Header_write_chksum_last(self, writer) ==
    LET cksum_be == u16_to_be_bytes(self.icmp_chksum)
        t == Icmp6Type_to_bytes(self.icmp_type)
        w == write_all(writer,
                       <<t.icmp_type, t.icmp_code,
                         t.four_bytes[1], t.four_bytes[2], t.four_bytes[3], t.four_bytes[4],
                         cksum_be[1], cksum_be[2]>>)
    IN  IF w.ok THEN [writer |-> w.sink, result |-> Ok(<<>>)]
        ELSE [writer |-> w.sink, result |-> Err(IoError)]

\* fn write(&self, writer) -> Result<(), WriteError>
Icmp6Header_write(self, writer) ==
    LET cksum_be == u16_to_be_bytes(self.icmp_chksum)
        t == Icmp6Type_to_bytes(self.icmp_type)
        w == write_all(writer,
                       <<t.icmp_type, t.icmp_code, cksum_be[1], cksum_be[2],
                         t.four_bytes[1], t.four_bytes[2], t.four_bytes[3], t.four_bytes[4]>>)
    IN  IF w.ok THEN [writer |-> w.sink, result |-> Ok(<<>>)]
        ELSE [writer |-> w.sink, result |-> Err(IoError)]

\* const MAX_PAYLOAD_LENGTH of calc_checksum_ipv6
MAX_PAYLOAD_LENGTH == usize_sub(u32_MAX, usize(Icmp4Header_SERIALIZED_SIZE))

\* let msg_len = payload.len() + Icmp6Header::SERIALIZED_SIZE
Icmp6Header_calc_checksum_ipv6_msg_len(payload) ==
    usize_add(slice_len(payload), usize(Icmp6Header_SERIALIZED_SIZE))

\* (msg_len as u16).to_be_bytes(): the length word that enters the sum
Icmp6Header_calc_checksum_ipv6_length_word(payload) ==
    u16_to_be_bytes(as_u16(Icmp6Header_calc_checksum_ipv6_msg_len(payload)))

\* calc_checksum_ipv6 rejecting a payload of exactly MAX_PAYLOAD_LENGTH bytes too.
Icmp6Header_calc_checksum_ipv6_guard_inclusive(self, ip_header, payload, le) ==
    IF ~usize_lt(slice_len(payload), MAX_PAYLOAD_LENGTH)
    THEN Err(Ipv6PayloadLengthTooLarge(slice_len(payload)))
    ELSE LET t == Icmp6Type_to_bytes(self.icmp_type)
             s1 == Sum16BitWords_add_16bytes(Sum16BitWords_new, ip_header.source, le)
             s2 == Sum16BitWords_add_16bytes(s1, ip_header.destination, le)
             s3 == Sum16BitWords_add_2bytes(s2, <<0, IPV6_ICMP>>, le)
             s4 == Sum16BitWords_add_2bytes(
                       s3, Icmp6Header_calc_checksum_ipv6_length_word(payload), le)
             s5 == Sum16BitWords_add_2bytes(s4, <<t.icmp_type, t.icmp_code>>, le)
             s6 == Sum16BitWords_add_4bytes(s5, t.four_bytes, le)
             s7 == Sum16BitWords_add_slice(s6, payload, le)
         IN  Ok(u16_to_be(Sum16BitWords_ones_complement(s7), le))

\* fn calc_checksum_ipv6(&self, ip_header: &Ipv6Header, payload: &[u8])
\*     -> Result<u16, ValueError>, on a host that is little-endian or not
Icmp6Header_calc_checksum_ipv6(self, ip_header, payload, le) ==
    IF usize_lt(MAX_PAYLOAD_LENGTH, slice_len(payload))
    THEN Err(Ipv6PayloadLengthTooLarge(slice_len(payload)))
    ELSE LET t == Icmp6Type_to_bytes(self.icmp_type)
             s1 == Sum16BitWords_add_16bytes(Sum16BitWords_new, ip_header.source, le)
             s2 == Sum16BitWords_add_16bytes(s1, ip_header.destination, le)
             s3 == Sum16BitWords_add_2bytes(s2, <<0, IPV6_ICMP>>, le)
             s4 == Sum16BitWords_add_2bytes(
                       s3, Icmp6Header_calc_checksum_ipv6_length_word(payload), le)
             s5 == Sum16BitWords_add_2bytes(s4, <<t.icmp_type, t.icmp_code>>, le)
             s6 == Sum16BitWords_add_4bytes(s5, t.four_bytes, le)
             s7 == Sum16BitWords_add_slice(s6, payload, le)
         IN  Ok(u16_to_be(Sum16BitWords_ones_complement(s7), le))

(***************************************************************************)
(* struct Icmp6HeaderSlice { slice: &[u8] }                                *)
(***************************************************************************)
\* fn from_slice(slice) -> Result<Icmp6HeaderSlice, ReadError>
Icmp6HeaderSlice_from_slice(slice) ==
    IF Len(slice) < Icmp6Header_SERIALIZED_SIZE
    THEN Err(UnexpectedEndOfSlice(Icmp6Header_SERIALIZED_SIZE))
    ELSE Ok([slice |-> SubSeq(slice, 1, Icmp6Header_SERIALIZED_SIZE)])

\* fn icmp_type(&self) -> Icmp6Type
Icmp6HeaderSlice_icmp_type(self) ==
    Icmp6Type_from_bytes(self.slice[1], self.slice[2],
                         <<self.slice[5], self.slice[6], self.slice[7], self.slice[8]>>)

\* fn icmp_code(&self) -> u8: *self.slice.get_unchecked(0)
Icmp6HeaderSlice_icmp_code(self) == self.slice[1]

\* icmp_chksum reading the two checksum bytes least significant first.
Icmp6HeaderSlice_icmp_chksum_little_endian(self) ==
    u16_from_be_bytes(<<self.slice[4], self.slice[3]>>)

\* fn icmp_chksum(&self) -> u16
Icmp6HeaderSlice_icmp_chksum(self) == u16_from_be_bytes(<<self.slice[3], self.slice[4]>>)

\* fn slice(&self) -> &[u8]
Icmp6HeaderSlice_slice(self) == self.slice

\* fn to_header(&self) -> Icmp6Header
Icmp6HeaderSlice_to_header(self) ==
    [icmp_type |-> Icmp6HeaderSlice_icmp_type(self),
     icmp_chksum |-> Icmp6HeaderSlice_icmp_chksum(self)]

\* from_slice returning the whole input as the unused part.
Icmp6Header_from_slice_rest_from_start(slice) ==
    LET s == Icmp6HeaderSlice_from_slice(slice) IN
    IF ~s.ok THEN Err(s.err)
    ELSE Ok([header |-> Icmp6HeaderSlice_to_header(s.val), rest |-> slice])

\* fn from_slice(slice: &[u8]) -> Result<(Icmp6Header, &[u8]), ReadError>
Icmp6Header_from_slice(slice) ==
    LET s == Icmp6HeaderSlice_from_slice(slice) IN
    IF ~s.ok THEN Err(s.err)
    ELSE Ok([header |-> Icmp6HeaderSlice_to_header(s.val),
             rest |-> SubSeq(slice, Icmp6Header_SERIALIZED_SIZE + 1, Len(slice))])

(***************************************************************************)
(* Inputs of the Icmp6Header specification.                                *)
(***************************************************************************)
NoIcmp6Header == [tag |-> "None"]

\* Type and code bytes and four_bytes of the headers and of the input slices.
HeaderTypeBytes == {0, 1, 2, 3, 4, 128, 129, 200}
HeaderCodeBytes == {0, 4, MaxCode, 255}
HeaderFourBytes == {Zero4, <<1, 2, 5, 208>>}

\* The Icmp6Type values a caller holds: decoded ones, and values built directly, among
\* them a Raw with the type byte of a named message, a Raw sub-code with a named code
\* and a Raw time-exceeded code with a named code.
Icmp6TypeInputs ==
    {Icmp6Type_from_bytes(t, c, f) :
         t \in HeaderTypeBytes, c \in HeaderCodeBytes, f \in HeaderFourBytes}
    \cup {[tag |-> "Raw", icmp_type |-> TYPE_DST_UNREACH, icmp_code |-> 4,
           four_bytes |-> <<9, 9, 9, 9>>],
          [tag |-> "DestinationUnreachable", f0 |-> DestUnreachRaw(4, <<9, 9, 9, 9>>)],
          [tag |-> "DestinationUnreachable", f0 |-> DestUnreachRaw(4, Zero4)],
          [tag |-> "TimeExceeded", code |-> [tag |-> "Raw", code |-> 0]]}

\* The checksums a caller assigns.
ChksumInputs == {0, 4660, 65535}

\* The checksum bytes of the input slices.
ChksumBytes == {<<0, 0>>, <<18, 52>>}

\* The IPv6 headers: two address pairs, the second one under two hop limits.
Ipv6HeaderInputs ==
    {[source |-> SubSeq(ZeroBuffer, 1, 16), destination |-> SubSeq(ZeroBuffer, 1, 16),
      hop_limit |-> 64],
     [source |-> SubSeq(PatternTable[3], 1, 16),
      destination |-> SubSeq(PatternTable[3], 17, 32), hop_limit |-> 64],
     [source |-> SubSeq(PatternTable[3], 1, 16),
      destination |-> SubSeq(PatternTable[3], 17, 32), hop_limit |-> 1]}

\* The first bytes of the payloads.
PayloadHeads == {<<>>, <<171>>, <<255, 255, 1>>}

\* The lengths of the long payloads: around 2^16 - 8, where payload.len() + 8 no longer
\* fits 16 bits, and around u32::MAX - 8 and u32::MAX - 16.
LongPayloadLens ==
    {usize(65527), usize(65528), usize(65529), <<1, 0>>,
     usize_sub(u32_MAX, usize(17)), usize_sub(u32_MAX, usize(16)),
     usize_sub(u32_MAX, usize(15)), usize_sub(u32_MAX, usize(9)),
     usize_sub(u32_MAX, usize(8)), usize_sub(u32_MAX, usize(7)),
     u32_MAX, usize_add(u32_MAX, usize(1))}

\* The payloads: each head alone, and each head followed by zero bytes up to each of
\* the long lengths.
ChecksumPayloadInputs ==
    {[head |-> h, zeros |-> usize(0)] : h \in PayloadHeads}
    \cup {[head |-> h, zeros |-> usize_sub(n, usize(Len(h)))] :
              h \in PayloadHeads, n \in LongPayloadLens}

\* The input slices: a header followed by MaxTrail bytes, cut to several lengths.
Icmp6SliceInputs ==
    UNION {{SubSeq(<<t, c>> \o k \o <<1, 2, 5, 208>> \o Trail(MaxTrail, 1), 1, n) :
                n \in {0, 7, 8, 8 + MaxTrail}} :
               t \in HeaderTypeBytes, c \in {0, MaxCode, 255}, k \in ChksumBytes}

\* Room of the sinks written to: too little for a header, exactly enough, more.
Icmp6SinkRooms == {3, 8, 64}

(***************************************************************************)
(* SpecHeader: an Icmp6Header is created, its public fields are assigned,  *)
(* it is summed, written and decoded again, in any order; views are built  *)
(* over input slices.  The caller makes one call at a time and drops its   *)
(* argument and return value before the next.                              *)
(***************************************************************************)
InitHeader ==
    /\ ihdr = NoIcmp6Header
    /\ iarg = [op |-> "none"]
    /\ iret = [op |-> "none"]
    /\ assigned = 0
    /\ IdleIcmp
    /\ IdleView
    /\ IdleHdr

IcmpIdle == iret.op = "none"

\* ihdr = Icmp6Header::new(m)
IcmpNew(m) ==
    /\ IcmpIdle
    /\ ihdr' = Icmp6Header_new(m)
    /\ assigned' = 0
    /\ iarg' = [op |-> "new", icmp_type |-> m]
    /\ iret' = [op |-> "new"]
    /\ UNCHANGED <<icmpVars, viewVars, hdrVars>>

\* ihdr.icmp_type = m
IcmpSetType(m) ==
    /\ IcmpIdle
    /\ ihdr # NoIcmp6Header
    /\ ihdr' = [ihdr EXCEPT !.icmp_type = m]
    /\ iarg' = [op |-> "set_type", icmp_type |-> m]
    /\ iret' = [op |-> "set_type"]
    /\ UNCHANGED <<assigned, icmpVars, viewVars, hdrVars>>

\* ihdr.icmp_chksum = v
IcmpSetChksum(v) ==
    /\ IcmpIdle
    /\ ihdr # NoIcmp6Header
    /\ ihdr' = [ihdr EXCEPT !.icmp_chksum = v]
    /\ assigned' = v
    /\ iarg' = [op |-> "set_chksum", icmp_chksum |-> v]
    /\ iret' = [op |-> "set_chksum"]
    /\ UNCHANGED <<icmpVars, viewVars, hdrVars>>

\* ihdr.header_len()
IcmpHeaderLen ==
    /\ IcmpIdle
    /\ ihdr # NoIcmp6Header
    /\ iarg' = [op |-> "header_len"]
    /\ iret' = [op |-> "header_len", val |-> Icmp6Header_header_len(ihdr)]
    /\ UNCHANGED <<ihdr, assigned, icmpVars, viewVars, hdrVars>>

\* ihdr.calc_checksum_ipv6(&ip_header, payload) on a host of either byte order
IcmpCalcChecksum(ip_header, payload, le) ==
    /\ IcmpIdle
    /\ ihdr # NoIcmp6Header
    /\ LET r == Icmp6Header_calc_checksum_ipv6(ihdr, ip_header, payload, le) IN
         /\ iarg' = [op |-> "calc_checksum_ipv6", ip_header |-> ip_header,
                     payload |-> payload, le |-> le]
         /\ iret' = [op |-> "calc_checksum_ipv6", ok |-> r.ok,
                     err |-> IF r.ok THEN NoError ELSE r.err,
                     val |-> IF r.ok THEN r.val ELSE 0]
    /\ UNCHANGED <<ihdr, assigned, icmpVars, viewVars, hdrVars>>

\* ihdr.write(&mut sink), the sink empty with the given room
IcmpWrite(room) ==
    /\ IcmpIdle
    /\ ihdr # NoIcmp6Header
    /\ LET w == Icmp6Header_write(ihdr, [data |-> <<>>, room |-> room]) IN
         /\ iarg' = [op |-> "write", room |-> room]
         /\ iret' = [op |-> "write", ok |-> w.result.ok,
                     err |-> IF w.result.ok THEN NoError ELSE w.result.err,
                     written |-> w.writer.data]
    /\ UNCHANGED <<ihdr, assigned, icmpVars, viewVars, hdrVars>>

\* Icmp6Header::from_slice(slice); written tells that slice is what the last call wrote
\* followed by trail.
IcmpFromSlice(slice, written, trail) ==
    LET r == Icmp6Header_from_slice(slice) IN
    /\ iarg' = [op |-> "from_slice", slice |-> slice, written |-> written, trail |-> trail]
    /\ iret' = IF r.ok
               THEN [op |-> "from_slice", ok |-> TRUE, err |-> NoError,
                     header |-> r.val.header, rest |-> r.val.rest]
               ELSE [op |-> "from_slice", ok |-> FALSE, err |-> r.err]
    /\ UNCHANGED <<ihdr, assigned, icmpVars, viewVars, hdrVars>>

\* Decode an input slice.
IcmpFromSliceInput(slice) ==
    /\ IcmpIdle
    /\ IcmpFromSlice(slice, FALSE, <<>>)

\* Decode what the last call wrote, followed by some trailing bytes.
IcmpFromSliceWritten(trail) ==
    /\ iret.op = "write"
    /\ iret.ok
    /\ IcmpFromSlice(iret.written \o trail, TRUE, trail)

\* let s = Icmp6HeaderSlice::from_slice(slice)?; then s.slice(), s.icmp_type(),
\* s.icmp_code(), s.icmp_chksum() and s.to_header()
IcmpSliceFromSlice(slice) ==
    /\ IcmpIdle
    /\ LET r == Icmp6HeaderSlice_from_slice(slice) IN
         /\ iarg' = [op |-> "slice_from_slice", slice |-> slice]
         /\ iret' = IF r.ok
                    THEN [op |-> "slice_from_slice", ok |-> TRUE, err |-> NoError,
                          slice |-> Icmp6HeaderSlice_slice(r.val),
                          icmp_type |-> Icmp6HeaderSlice_icmp_type(r.val),
                          icmp_code |-> Icmp6HeaderSlice_icmp_code(r.val),
                          icmp_chksum |-> Icmp6HeaderSlice_icmp_chksum(r.val),
                          header |-> Icmp6HeaderSlice_to_header(r.val)]
                    ELSE [op |-> "slice_from_slice", ok |-> FALSE, err |-> r.err]
    /\ UNCHANGED <<ihdr, assigned, icmpVars, viewVars, hdrVars>>

\* The caller drops the argument and the return value of the last call.
IcmpDrop ==
    /\ ~IcmpIdle
    /\ iarg' = [op |-> "none"]
    /\ iret' = [op |-> "none"]
    /\ UNCHANGED <<ihdr, assigned, icmpVars, viewVars, hdrVars>>

NextHeader ==
    \/ \E m \in Icmp6TypeInputs : IcmpNew(m)
    \/ \E m \in Icmp6TypeInputs : IcmpSetType(m)
    \/ \E v \in ChksumInputs : IcmpSetChksum(v)
    \/ IcmpHeaderLen
    \/ \E ip_header \in Ipv6HeaderInputs, payload \in ChecksumPayloadInputs, le \in BOOLEAN :
           IcmpCalcChecksum(ip_header, payload, le)
    \/ \E room \in Icmp6SinkRooms : IcmpWrite(room)
    \/ \E slice \in Icmp6SliceInputs : IcmpFromSliceInput(slice)
    \/ \E trail \in TrailInputs : IcmpFromSliceWritten(trail)
    \/ \E slice \in Icmp6SliceInputs : IcmpSliceFromSlice(slice)
    \/ IcmpDrop

SpecHeader == InitHeader /\ [][NextHeader]_vars

(***************************************************************************)
(* Claims about Ipv6RawExtensionHeader (Spec).                             *)
(***************************************************************************)
\* A payload length the record accepts.
ValidPayloadLen(n) == n >= 6 /\ n <= 2046 /\ (n + 2) % 8 = 0

\* C2: in every reachable state of an Ipv6RawExtensionHeader, however it was created
\* (new_raw, from_slice, read, to_header) and whatever set_payload calls succeeded or
\* failed on it, payload().len() is in [6, 2046] and (payload().len() + 2) mod 8 = 0.
C2_PayloadLenInvariant ==
    /\ hdr # NoHeader => ValidPayloadLen(Len(Ipv6RawExtensionHeader_payload(hdr)))
    /\ (ret.op = "from_slice" /\ ret.ok) =>
           ValidPayloadLen(Len(Ipv6RawExtensionHeader_payload(ret.header)))

\* C2 witness: a record holding the longest payload has just rejected a set_payload.
C2_Witness ==
    /\ hdr # NoHeader
    /\ ret.op = "set_payload"
    /\ ~ret.ok
    /\ Len(Ipv6RawExtensionHeader_payload(hdr)) = 2046

\* C3: set_payload(p) with a length below 6, above 2046 or with (len + 2) mod 8 # 0
\* returns a ValueError, and a set_payload that fails leaves the record unchanged:
\* next_header, payload(), header_len() and the buffer are what they were.
C3_FailedSetPayloadLeavesRecord ==
    [][(ret.op = "none" /\ ret'.op = "set_payload") =>
          /\ ~ValidPayloadLen(Len(arg'.payload)) => ~ret'.ok
          /\ ~ret'.ok =>
                /\ ret'.err.kind \in {"Ipv6ExtensionPayloadTooSmall",
                                      "Ipv6ExtensionPayloadTooLarge",
                                      "Ipv6ExtensionPayloadLengthUnaligned"}
                /\ hdr'.next_header = hdr.next_header
                /\ Ipv6RawExtensionHeader_payload(hdr') = Ipv6RawExtensionHeader_payload(hdr)
                /\ Ipv6RawExtensionHeader_header_len(hdr')
                       = Ipv6RawExtensionHeader_header_len(hdr)
                /\ hdr' = hdr]_vars

\* C3 witness: a payload of 7 bytes, different from the stored one, was rejected.
C3_Witness ==
    /\ ret.op = "set_payload"
    /\ ~ret.ok
    /\ Len(arg.payload) = 7
    /\ arg.payload # SubSeq(hdr.payload_buffer, 1, 7)

\* C4: for every valid payload length n and every next_header x, new_raw(x, payload)
\* succeeds and the record has next_header = x, payload().len() = n and payload() equal
\* to the given payload.
C4_NewRawAccepts ==
    (ret.op = "new_raw" /\ ValidPayloadLen(Len(arg.payload))) =>
        /\ ret.ok
        /\ hdr.next_header = arg.next_header
        /\ Len(Ipv6RawExtensionHeader_payload(hdr)) = Len(arg.payload)
        /\ Ipv6RawExtensionHeader_payload(hdr) = arg.payload

\* C4 witness: new_raw built a record from the shortest valid payload.
C4_Witness ==
    /\ ret.op = "new_raw"
    /\ ret.ok
    /\ Len(arg.payload) = 6
    /\ arg.next_header = 255

\* C5: new_raw and set_payload reject a length that is not valid with the error of the
\* bound it violates, carrying the length: too small below 6, too large above 2046,
\* unaligned otherwise; a length out of range and unaligned gives the range error.
C5_LengthErrors ==
    (ret.op \in {"new_raw", "set_payload"} /\ ~ValidPayloadLen(Len(arg.payload))) =>
        LET n == Len(arg.payload) IN
        /\ ~ret.ok
        /\ ret.err = IF n < 6 THEN [kind |-> "Ipv6ExtensionPayloadTooSmall", val |-> n]
                     ELSE IF n > 2046
                     THEN [kind |-> "Ipv6ExtensionPayloadTooLarge", val |-> n]
                     ELSE [kind |-> "Ipv6ExtensionPayloadLengthUnaligned", val |-> n]

\* C5 witness: set_payload rejected 3000 bytes, out of range and unaligned, as too large.
C5_Witness ==
    /\ ret.op = "set_payload"
    /\ Len(arg.payload) = 3000
    /\ (3000 + 2) % 8 # 0
    /\ ret.err = [kind |-> "Ipv6ExtensionPayloadTooLarge", val |-> 3000]

\* C6: from_slice applied to the bytes written by r.write followed by trailing bytes t
\* returns (r', t) with r' == r.
C6_WriteFromSliceRoundTrip ==
    (ret.op = "from_slice" /\ arg.written) =>
        /\ ret.ok
        /\ Ipv6RawExtensionHeader_eq(ret.header, hdr)
        /\ ret.rest = arg.trail

\* C6 witness: a record with the longest payload was written and decoded with trailing
\* bytes behind it.
C6_Witness ==
    /\ ret.op = "from_slice"
    /\ arg.written
    /\ Len(arg.trail) > 0
    /\ hdr.header_length = 255
    /\ ret.ok

(***************************************************************************)
(* Claims about Ipv6RawExtensionHeaderSlice (SpecView).                    *)
(***************************************************************************)
\* C7: from_slice(s) fails with UnexpectedEndOfSlice(8) when s.len() < 8, otherwise with
\* UnexpectedEndOfSlice(total), total = (s[1] + 1) * 8, when s.len() < total, and in no
\* other case.
C7_FromSliceErrors ==
    vret.op = "from_slice" =>
        IF Len(vin) < 8
        THEN ~vret.ok /\ vret.err = [kind |-> "UnexpectedEndOfSlice", val |-> 8]
        ELSE IF Len(vin) < (vin[2] + 1) * 8
        THEN ~vret.ok
             /\ vret.err = [kind |-> "UnexpectedEndOfSlice", val |-> (vin[2] + 1) * 8]
        ELSE vret.ok

\* C7 witness: [6, 1, ...] of 10 bytes was rejected with need 16.
C7_Witness ==
    /\ vret.op = "from_slice"
    /\ Len(vin) = 10
    /\ vin[1] = 6
    /\ vin[2] = 1
    /\ vret.err = [kind |-> "UnexpectedEndOfSlice", val |-> 16]

\* C8: a view built by from_slice(s) is narrowed to total = (s[1] + 1) * 8 bytes:
\* slice() = s[0..total], next_header() = s[0], payload() = s[2..total]; the bytes of s
\* from index total on are no part of it, so inputs that agree on their first total
\* bytes give equal views.
C8_ViewNarrowed ==
    (vret.op = "from_slice" /\ vret.ok) =>
        LET total == (vin[2] + 1) * 8 IN
        /\ Ipv6RawExtensionHeaderSlice_slice(view) = SubSeq(vin, 1, total)
        /\ Ipv6RawExtensionHeaderSlice_next_header(view) = vin[1]
        /\ Ipv6RawExtensionHeaderSlice_payload(view) = SubSeq(vin, 3, total)
        /\ Len(Ipv6RawExtensionHeaderSlice_payload(view)) = total - 2
        /\ \A t \in TrailInputs :
               LET other == Ipv6RawExtensionHeaderSlice_from_slice(SubSeq(vin, 1, total) \o t)
               IN  other.ok /\ other.val = view

\* C8 witness: a view was built over an input with bytes behind the header.
C8_Witness ==
    /\ vret.op = "from_slice"
    /\ vret.ok
    /\ Len(vin) > (vin[2] + 1) * 8
    /\ vin[2] = 1

\* C9: to_header() of a view built by from_slice never fails, for every value of the
\* length byte: the payload length total - 2 is valid, new_raw returns no error, the
\* unwrap does not panic, and the record has the view's next_header and payload.
C9_ToHeaderNeverFails ==
    vret.op = "to_header" =>
        /\ vret.ok
        /\ vret.header # Panicked
        /\ ValidPayloadLen(Len(Ipv6RawExtensionHeaderSlice_payload(view)))
        /\ vret.header.next_header = Ipv6RawExtensionHeaderSlice_next_header(view)
        /\ Ipv6RawExtensionHeader_payload(vret.header)
               = Ipv6RawExtensionHeaderSlice_payload(view)

\* C9 witness: the view with length byte 255 was copied to a record.
C9_Witness ==
    /\ vret.op = "to_header"
    /\ view.slice[2] = 255
    /\ vret.ok

(***************************************************************************)
(* Claims about Icmp6Type (SpecIcmp).                                      *)
(***************************************************************************)
NamedTypes == {TYPE_DST_UNREACH, TYPE_PACKET_TOO_BIG, TYPE_TIME_EXCEEDED, TYPE_PARAM_PROB,
               TYPE_ECHO_REQUEST, TYPE_ECHO_REPLY}

\* The big-endian u32 of four bytes, as <<hi, lo>>.
BigEndian32(f) == <<f[1] * 256 + f[2], f[3] * 256 + f[4]>>

\* The triples whose positions unused by their variant are zero.
UnusedPositionsZero(b) ==
    \/ b.icmp_type \notin NamedTypes
    \/ b.icmp_type = TYPE_PARAM_PROB
    \/ b.icmp_type \in {TYPE_PACKET_TOO_BIG, TYPE_ECHO_REQUEST, TYPE_ECHO_REPLY}
          /\ b.icmp_code = 0
    \/ b.icmp_type \in {TYPE_DST_UNREACH, TYPE_TIME_EXCEEDED} /\ b.four_bytes = Zero4

\* A triple with the positions unused by its variant set to zero.
UnusedPositionsZeroed(b) ==
    CASE b.icmp_type \in {TYPE_DST_UNREACH, TYPE_TIME_EXCEEDED} ->
            Triple(b.icmp_type, b.icmp_code, Zero4)
      [] b.icmp_type \in {TYPE_PACKET_TOO_BIG, TYPE_ECHO_REQUEST, TYPE_ECHO_REPLY} ->
            Triple(b.icmp_type, 0, b.four_bytes)
      [] OTHER -> b

ExpectedDestUnreachable(c, f) ==
    CASE c = 0 -> [tag |-> "NoRoute"]
      [] c = 1 -> [tag |-> "Prohibited"]
      [] c = 2 -> [tag |-> "BeyondScope"]
      [] c = 3 -> [tag |-> "Address"]
      [] c = 4 -> [tag |-> "Port"]
      [] c = 5 -> [tag |-> "SourceAddressFailedPolicy"]
      [] c = 6 -> [tag |-> "RejectRoute"]
      [] OTHER -> [tag |-> "Raw", code |-> c, four_bytes |-> f]

ExpectedTimeExceededCode(c) ==
    CASE c = 0 -> [tag |-> "HopLimitExceeded"]
      [] c = 1 -> [tag |-> "FragmentReassemblyTimeExceeded"]
      [] OTHER -> [tag |-> "Raw", code |-> c]

\* C10: Icmp6Type::from_bytes classifies by the type byte alone: 1, 2, 3, 4, 128 and 129
\* give the named variants (mtu and pointer the big-endian u32 of four_bytes), any other
\* type gives Raw holding the triple verbatim, and a named type with an unrecognised
\* code keeps its variant with the code in the variant's own raw sub-code.
C10_FromBytesClassifies ==
    msg # NoMsg =>
        LET t == triple.icmp_type
            c == triple.icmp_code
            f == triple.four_bytes
        IN  CASE t = 1 -> /\ msg.tag = "DestinationUnreachable"
                          /\ msg.f0 = ExpectedDestUnreachable(c, f)
              [] t = 2 -> msg = [tag |-> "PacketTooBig", mtu |-> BigEndian32(f)]
              [] t = 3 -> msg = [tag |-> "TimeExceeded", code |-> ExpectedTimeExceededCode(c)]
              [] t = 4 -> msg = [tag |-> "ParameterProblem",
                                 code |-> [tag |-> "Raw", code |-> c],
                                 pointer |-> BigEndian32(f)]
              [] t = 128 -> msg.tag = "EchoRequest"
              [] t = 129 -> msg.tag = "EchoReply"
              [] OTHER -> msg = [tag |-> "Raw", icmp_type |-> t, icmp_code |-> c,
                                 four_bytes |-> f]

\* C10 witness: type 1 with the unknown code 7 was decoded to DestinationUnreachable
\* with a raw sub-code.
C10_Witness ==
    /\ msg # NoMsg
    /\ triple.icmp_type = TYPE_DST_UNREACH
    /\ triple.icmp_code = 7
    /\ triple.four_bytes = <<9, 9, 9, 9>>
    /\ msg.tag = "DestinationUnreachable"
    /\ msg.f0.tag = "Raw"

\* The code byte of each named destination-unreachable reason, and of the raw one.
DestUnreachableCodeOf(d) ==
    CASE d.tag = "NoRoute" -> 0
      [] d.tag = "Prohibited" -> 1
      [] d.tag = "BeyondScope" -> 2
      [] d.tag = "Address" -> 3
      [] d.tag = "Port" -> 4
      [] d.tag = "SourceAddressFailedPolicy" -> 5
      [] d.tag = "RejectRoute" -> 6
      [] d.tag = "Raw" -> d.code

\* The code byte of a time-exceeded code.
TimeExceededCodeOf(c) ==
    CASE c.tag = "HopLimitExceeded" -> 0
      [] c.tag = "FragmentReassemblyTimeExceeded" -> 1
      [] c.tag = "Raw" -> c.code

\* The four bytes of a 32-bit value <<hi, lo>>, most significant first.
BigEndianBytesOf(v) == <<v[1] \div 256, v[1] % 256, v[2] \div 256, v[2] % 256>>

C12_ViewCodeAndChecksum ==
    (iret.op = "slice_from_slice" /\ Len(iarg.slice) >= 8) =>
        /\ iret.ok
        /\ iret.icmp_code = iarg.slice[2]
        /\ iret.icmp_chksum = iarg.slice[3] * 256 + iarg.slice[4]

\* The part of C12 about the checksum alone.
C12_ViewChecksum ==
    (iret.op = "slice_from_slice" /\ Len(iarg.slice) >= 8) =>
        /\ iret.ok
        /\ iret.icmp_chksum = iarg.slice[3] * 256 + iarg.slice[4]

\* The sum of the bytes b taken as 16-bit big-endian words, a last odd byte padded with
\* a zero byte.
RECURSIVE BigEndianWordSum(_)
BigEndianWordSum(b) ==
    IF Len(b) = 0 THEN 0
    ELSE IF Len(b) = 1 THEN b[1] * 256
    ELSE b[1] * 256 + b[2] + BigEndianWordSum(SubSeq(b, 3, Len(b)))

\* The 16-bit one's-complement sum that a plain sum n of 16-bit words folds to.
OnesComplementFold(n) == IF n = 0 THEN 0 ELSE ((n - 1) % 65535) + 1

\* The checksum of header h over the addresses of ip and payload p with the message
\* length p.len() + 8 in the pseudo-header: the length <<hi, lo>> adds hi + lo, which is
\* hi * 65536 + lo in one's-complement arithmetic, and lo alone when it fits 16 bits.
ExpectedChecksum(h, ip, p) ==
    LET t == Icmp6Type_to_bytes(h.icmp_type)
        n == slice_len(p)
        lo == n[2] + 8
        msg_len == <<n[1] + (lo \div 65536), lo % 65536>>
    IN  65535 - OnesComplementFold(
            BigEndianWordSum(ip.source) + BigEndianWordSum(ip.destination) + 58
            + msg_len[1] + msg_len[2]
            + t.icmp_type * 256 + t.icmp_code + BigEndianWordSum(t.four_bytes)
            + BigEndianWordSum(p.head))

\* C13: calc_checksum_ipv6 is a pure function of (source, destination, type, code,
\* four_bytes, payload): for every accepted input it returns the one's complement of the
\* one's-complement sum of source, destination, {0, 58}, the length payload.len() + 8,
\* {type, code}, four_bytes and the payload, whatever the stored icmp_chksum, the other
\* fields of the IPv6 header and the byte order of the host are.
C13_ChecksumIsPseudoHeaderSum ==
    (iret.op = "calc_checksum_ipv6" /\ iret.ok) =>
        iret.val = ExpectedChecksum(ihdr, iarg.ip_header, iarg.payload)

\* C13 restricted to the payloads whose length plus 8 fits 16 bits.
C13_ChecksumBelow64K ==
    (iret.op = "calc_checksum_ipv6" /\ iret.ok
         /\ usize_lt(slice_len(iarg.payload), usize(65528))) =>
        iret.val = ExpectedChecksum(ihdr, iarg.ip_header, iarg.payload)

\* C14: for every payload that calc_checksum_ipv6 accepts, the length word added to the
\* sum equals payload.len() + 8: the length is neither overflowed nor truncated to
\* (payload.len() + 8) mod 2^16.
C14_LengthWordNotTruncated ==
    (iret.op = "calc_checksum_ipv6" /\ iret.ok) =>
        LET n == slice_len(iarg.payload)
            word == u16_from_be_bytes(Icmp6Header_calc_checksum_ipv6_length_word(iarg.payload))
        IN  n[1] = 0 /\ n[2] + 8 = word

\* C15 as stated: calc_checksum_ipv6 fails with Ipv6PayloadLengthTooLarge(payload.len())
\* exactly when payload.len() + 8 > u32::MAX - 8, and returns a checksum otherwise.
C15_RejectsLenPlus8AboveMax ==
    iret.op = "calc_checksum_ipv6" =>
        LET n == slice_len(iarg.payload)
            lo == n[2] + 8
            hi == n[1] + (lo \div 65536)
            above == hi > 65535 \/ (hi = 65535 /\ lo % 65536 > 65535 - 8)
        IN  /\ ~iret.ok <=> above
            /\ ~iret.ok => iret.err = [kind |-> "Ipv6PayloadLengthTooLarge", val |-> n]

\* C15 amended: calc_checksum_ipv6 fails with Ipv6PayloadLengthTooLarge(payload.len())
\* exactly when payload.len() > u32::MAX - 8, and returns a checksum otherwise.
C15_RejectsLenAboveMax ==
    iret.op = "calc_checksum_ipv6" =>
        LET n == slice_len(iarg.payload)
            above == n[1] > 65535 \/ (n[1] = 65535 /\ n[2] > 65535 - 8)
        IN  /\ ~iret.ok <=> above
            /\ ~iret.ok => iret.err = [kind |-> "Ipv6PayloadLengthTooLarge", val |-> n]

\* C15 witness: a payload of exactly u32::MAX - 8 bytes was summed.
C15_Witness ==
    /\ iret.op = "calc_checksum_ipv6"
    /\ iret.ok
    /\ slice_len(iarg.payload) = <<65535, 65527>>

\* C16: the checksum of an Icmp6Header is a plain stored field: new sets it to 0, and
\* after every step (a change of icmp_type, calc_checksum_ipv6, header_len, write) it
\* holds the value the caller last assigned, 0 if none; calc_checksum_ipv6, header_len
\* and write leave the whole header unchanged, and write emits the stored value.
C16_ChecksumIsStoredField ==
    [][/\ ihdr' # NoIcmp6Header => ihdr'.icmp_chksum = assigned'
       /\ iret'.op = "new" => ihdr'.icmp_chksum = 0
       /\ (iret.op = "none" /\ iret'.op = "set_type") =>
              ihdr'.icmp_chksum = ihdr.icmp_chksum
       /\ (iret.op = "none" /\ iret'.op \in {"calc_checksum_ipv6", "header_len", "write"}) =>
              ihdr' = ihdr
       /\ (iret'.op = "write" /\ iret'.ok) =>
              /\ iret'.written[3] = assigned' \div 256
              /\ iret'.written[4] = assigned' % 256]_vars

\* C16 witness: a header whose checksum the caller set to 0x1234 was written.
C16_Witness ==
    /\ iret.op = "write"
    /\ iret.ok
    /\ assigned = 4660
    /\ iret.written[3] = 18
    /\ iret.written[4] = 52

\* C17: Icmp6Header::from_slice(s) fails with UnexpectedEndOfSlice(8) iff s.len() < 8;
\* otherwise it returns the header with icmp_type = Icmp6Type::from_bytes(s[0], s[1],
\* s[4..8]) and icmp_chksum the big-endian u16 of s[2..4], and the remainder s[8..].
C17_HeaderFromSlice ==
    iret.op = "from_slice" =>
        LET s == iarg.slice IN
        IF Len(s) < 8
        THEN ~iret.ok /\ iret.err = [kind |-> "UnexpectedEndOfSlice", val |-> 8]
        ELSE /\ iret.ok
             /\ iret.header.icmp_type = Icmp6Type_from_bytes(s[1], s[2], <<s[5], s[6], s[7], s[8]>>)
             /\ iret.header.icmp_chksum = s[3] * 256 + s[4]
             /\ iret.rest = SubSeq(s, 9, Len(s))

\* C17 witness: a slice with an unknown type byte, a checksum whose two bytes differ and
\* bytes behind the header was decoded.
C17_Witness ==
    /\ iret.op = "from_slice"
    /\ ~iarg.written
    /\ iret.ok
    /\ iarg.slice[1] = 200
    /\ iret.header.icmp_chksum = 4660
    /\ Len(iret.rest) > 0

\* C18: Icmp6Header::write on a sink that accepts the data emits exactly 8 bytes =
\* header_len(): type, code, checksum high byte, checksum low byte, then the four
\* four_bytes, with (type, code, four_bytes) = icmp_type.to_bytes(); header_len() is 8
\* for every header.
C18_WriteEmitsEightBytes ==
    /\ iret.op = "header_len" => iret.val = 8
    /\ (iret.op = "write" /\ iarg.room >= 8) =>
           LET t == Icmp6Type_to_bytes(ihdr.icmp_type) IN
           /\ iret.ok
           /\ Len(iret.written) = 8
           /\ Len(iret.written) = Icmp6Header_header_len(ihdr)
           /\ iret.written = <<t.icmp_type, t.icmp_code,
                               ihdr.icmp_chksum \div 256, ihdr.icmp_chksum % 256,
                               t.four_bytes[1], t.four_bytes[2],
                               t.four_bytes[3], t.four_bytes[4]>>

\* C18 witness: a parameter-problem header with checksum 0x1234 and a pointer whose four
\* bytes differ was written.
C18_Witness ==
    /\ iret.op = "write"
    /\ iret.ok
    /\ ihdr.icmp_chksum = 4660
    /\ ihdr.icmp_type.tag = "ParameterProblem"
    /\ iret.written = <<4, ihdr.icmp_type.code.code, 18, 52, 1, 2, 5, 208>>

(***************************************************************************)
(* Further claims about Ipv6RawExtensionHeader (Spec, SpecSupported).      *)
(***************************************************************************)
\* C19: for every valid Ipv6RawExtensionHeader, write on a sink that accepts the data
\* emits exactly header_len() = 2 + payload().len() bytes: next_header, the length byte
\* (payload().len() - 6) / 8, then the payload; the number of bytes written is
\* (length byte + 1) * 8.
C19_WriteEmitsHeaderLenBytes ==
    (ret.op = "write" /\ arg.room >= 2 + Len(Ipv6RawExtensionHeader_payload(hdr))) =>
        LET payload == Ipv6RawExtensionHeader_payload(hdr)
            written == ret.written
        IN  /\ ret.ok
            /\ Len(written) = Ipv6RawExtensionHeader_header_len(hdr)
            /\ Len(written) = 2 + Len(payload)
            /\ written[1] = hdr.next_header
            /\ written[2] = (Len(payload) - 6) \div 8
            /\ SubSeq(written, 3, Len(written)) = payload
            /\ Len(written) = (written[2] + 1) * 8

\* C19 witness: a record with a payload of 14 bytes was written whole.
C19_Witness ==
    /\ ret.op = "write"
    /\ ret.ok
    /\ Len(Ipv6RawExtensionHeader_payload(hdr)) = 14
    /\ Len(ret.written) = 16
    /\ ret.written[2] = 1

\* C20: header_type_supported(p) is true exactly for the protocol numbers 0, 43, 60,
\* 135, 139 and 140, and false for every other byte, 50 (ESP) and 51 (Authentication
\* Header) among them; the function of the view returns what the function of the record
\* returns.
C20_SupportedHeaderTypes ==
    ret.op = "header_type_supported" =>
        /\ ret.header = (arg.next_header \in {0, 43, 60, 135, 139, 140})
        /\ ret.slice = ret.header
        /\ arg.next_header \in {50, 51} => ~ret.header

\* C20 witness: the Authentication Header number 51 was classified as not supported.
C20_Witness ==
    /\ ret.op = "header_type_supported"
    /\ arg.next_header = 51
    /\ ~ret.header
    /\ ~ret.slice

(***************************************************************************)
(* enum ReadError, as tests/errors/mod.rs builds its values; its           *)
(* definition and add_slice_offset are outside the modelled sources.       *)
(***************************************************************************)
\* struct UnexpectedEndOfSliceError { expected_min_len: usize, actual_len: usize }
UnexpectedEndOfSliceError(expected_min_len, actual_len) ==
    [expected_min_len |-> expected_min_len, actual_len |-> actual_len]

\* ReadError::UnexpectedEndOfSlice(UnexpectedEndOfSliceError)
ReadError_UnexpectedEndOfSlice(e) == [kind |-> "UnexpectedEndOfSlice", val |-> e]

\* The ReadError variants that carry no slice lengths.
ReadError_IoError == [kind |-> "IoError", val |-> [io |-> "UnexpectedEof"]]
ReadError_DoubleVlanOuterNonVlanEtherType(v) ==
    [kind |-> "DoubleVlanOuterNonVlanEtherType", val |-> [f0 |-> v]]
ReadError_IpUnsupportedVersion(v) == [kind |-> "IpUnsupportedVersion", val |-> [f0 |-> v]]
ReadError_Ipv4TotalLengthSmallerThanIhl(header_length, total_length) ==
    [kind |-> "Ipv4TotalLengthSmallerThanIhl",
     val |-> [header_length |-> header_length, total_length |-> total_length]]
ReadError_Ipv6UnexpectedVersion(v) == [kind |-> "Ipv6UnexpectedVersion", val |-> [f0 |-> v]]
ReadError_Ipv6HopByHopHeaderNotAtStart == [kind |-> "Ipv6HopByHopHeaderNotAtStart", val |-> [f0 |-> 0]]
ReadError_IpAuthenticationHeaderTooSmallPayloadLength(v) ==
    [kind |-> "IpAuthenticationHeaderTooSmallPayloadLength", val |-> [f0 |-> v]]
ReadError_TcpDataOffsetTooSmall(v) == [kind |-> "TcpDataOffsetTooSmall", val |-> [f0 |-> v]]

\* The too-short error a slice decoder raised on slice, with the length of the slice
\* it was given next to the minimum it asked for.
ReadError_of_slice_error(err, slice) ==
    ReadError_UnexpectedEndOfSlice(UnexpectedEndOfSliceError(err.val, Len(slice)))

\* add_slice_offset moving the required minimum only.
ReadError_add_slice_offset_expected_only(self, offset) ==
    IF self.kind = "UnexpectedEndOfSlice"
    THEN ReadError_UnexpectedEndOfSlice(
             UnexpectedEndOfSliceError(self.val.expected_min_len + offset,
                                       self.val.actual_len))
    ELSE self

\* fn add_slice_offset(self, offset: usize) -> ReadError
ReadError_add_slice_offset(self, offset) ==
    IF self.kind = "UnexpectedEndOfSlice"
    THEN ReadError_UnexpectedEndOfSlice(
             UnexpectedEndOfSliceError(self.val.expected_min_len + offset,
                                       self.val.actual_len + offset))
    ELSE self

(***************************************************************************)
(* SpecError: a ReadError, built by the caller or raised by a slice        *)
(* decoder at some offset of a larger buffer, is moved by that offset.     *)
(***************************************************************************)
\* Offsets of the decoded slice within the buffer.
OffsetInputs == {0, 3, 14, 40}

\* Errors built by the caller: too-short errors, and the other variants.
LengthPairInputs == {<<2, 1>>, <<8, 0>>, <<8, 7>>, <<16, 8>>, <<2048, 2047>>}
ReadErrorInputs ==
    {ReadError_UnexpectedEndOfSlice(UnexpectedEndOfSliceError(p[1], p[2])) :
         p \in LengthPairInputs}
        \cup {ReadError_IoError, ReadError_DoubleVlanOuterNonVlanEtherType(2),
              ReadError_IpUnsupportedVersion(5),
              ReadError_Ipv4TotalLengthSmallerThanIhl(20, 19),
              ReadError_Ipv6UnexpectedVersion(4), ReadError_Ipv6HopByHopHeaderNotAtStart,
              ReadError_IpAuthenticationHeaderTooSmallPayloadLength(0),
              ReadError_TcpDataOffsetTooSmall(4)}

\* The slices handed to the slice decoders at an offset of a buffer.
OffsetSliceInputs ==
    UNION {{SliceBytes(nh, lb, 1, n) : n \in SliceLens(lb)} :
               nh \in NextHeaderInputs, lb \in {0, 1, 255}}

NoSlice == [tag |-> "None"]

InitError ==
    /\ hdr = NoHeader
    /\ arg \in {[op |-> "add_slice_offset", err |-> e, offset |-> k, slice |-> NoSlice,
                 decoder |-> "none"] :
                    e \in ReadErrorInputs, k \in OffsetInputs}
                \cup {[op |-> "decode_at", offset |-> k, slice |-> s, decoder |-> d] :
                          k \in OffsetInputs, s \in OffsetSliceInputs,
                          d \in {"Ipv6RawExtensionHeaderSlice", "Icmp6HeaderSlice"}}
    /\ ret = [op |-> "none"]
    /\ IdleIcmp
    /\ IdleView
    /\ IdleIh

\* err.add_slice_offset(offset) on an error the caller built
AddSliceOffset ==
    /\ ret.op = "none"
    /\ arg.op = "add_slice_offset"
    /\ ret' = [op |-> "add_slice_offset", ok |-> FALSE,
               err |-> ReadError_add_slice_offset(arg.err, arg.offset)]
    /\ UNCHANGED <<hdr, arg, icmpVars, viewVars, ihVars>>

\* decoder::from_slice(&buffer[offset..]).map_err(|e| e.add_slice_offset(offset))
DecodeAtOffset ==
    /\ ret.op = "none"
    /\ arg.op = "decode_at"
    /\ LET r == IF arg.decoder = "Icmp6HeaderSlice"
                THEN Icmp6HeaderSlice_from_slice(arg.slice)
                ELSE Ipv6RawExtensionHeaderSlice_from_slice(arg.slice)
       IN  ret' = IF r.ok THEN [op |-> "decode_at", ok |-> TRUE, err |-> NoError]
                  ELSE [op |-> "decode_at", ok |-> FALSE,
                        err |-> ReadError_add_slice_offset(
                                    ReadError_of_slice_error(r.err, arg.slice),
                                    arg.offset)]
    /\ UNCHANGED <<hdr, arg, icmpVars, viewVars, ihVars>>

NextError ==
    \/ AddSliceOffset
    \/ DecodeAtOffset

SpecError == InitError /\ [][NextError]_vars

(***************************************************************************)
(* C21: add_slice_offset(k) on an UnexpectedEndOfSlice error adds k to     *)
(* both expected_min_len and actual_len and returns every other ReadError  *)
(* unchanged; a too-short error raised while decoding at offset k of a     *)
(* buffer therefore reports the length of the whole buffer and the minimum *)
(* length the whole buffer needs.                                          *)
(***************************************************************************)
\* The least slice length the decoder accepts or asks for next, from the wire layout.
RequiredMinLen(decoder, slice) ==
    IF decoder = "Icmp6HeaderSlice" \/ Len(slice) < 8 THEN 8 ELSE (slice[2] + 1) * 8

FreshRecord(h) ==
    unwrap(Ipv6RawExtensionHeader_new_raw(h.next_header, Ipv6RawExtensionHeader_payload(h)))

\* The buffer of h holds bytes of an earlier payload beyond its current payload.
HasStaleBytes(h) == h.payload_buffer # FreshRecord(h).payload_buffer

C22_SetPayloadReplacesWholesale ==
    [][/\ (ret'.op = "set_payload" /\ ret'.ok) =>
             LET fresh == unwrap(Ipv6RawExtensionHeader_new_raw(hdr.next_header,
                                                                arg'.payload))
             IN  /\ Ipv6RawExtensionHeader_payload(hdr') = arg'.payload
                 /\ hdr'.next_header = hdr.next_header
                 /\ fresh # Panicked
                 /\ Ipv6RawExtensionHeader_eq(hdr', fresh)
                 /\ Ipv6RawExtensionHeader_eq(fresh, hdr')
       /\ (ret'.op = "write" /\ ret'.ok) =>
             /\ ret'.written
                    = <<hdr'.next_header, (Len(Ipv6RawExtensionHeader_payload(hdr')) - 6) \div 8>>
                          \o Ipv6RawExtensionHeader_payload(hdr')
             /\ ret'.written
                    = Ipv6RawExtensionHeader_write(FreshRecord(hdr'),
                                                   [data |-> <<>>, room |-> arg'.room]).writer.data
       /\ (ret'.op = "from_slice" /\ ret'.ok /\ hdr' # NoHeader) =>
             (Ipv6RawExtensionHeader_eq(hdr', ret'.header)
                  <=> /\ hdr'.next_header = arg'.slice[1]
                      /\ Ipv6RawExtensionHeader_payload(hdr')
                             = SubSeq(arg'.slice, 3, (arg'.slice[2] + 1) * 8))
      ]_vars

\* set_payload succeeded with a payload shorter than the one before, whose bytes are
\* still in the buffer.
C22_Witness ==
    /\ ret.op = "set_payload"
    /\ ret.ok
    /\ Len(arg.payload) = 6
    /\ HasStaleBytes(hdr)

(***************************************************************************)
(* C23: read agrees with Ipv6RawExtensionHeader::from_slice.  Where        *)
(* from_slice(b) succeeds with (r, rest), read over b returns a record     *)
(* equal to r and consumes b.len() - rest.len() = (b[1] + 1) * 8 bytes;    *)
(* where from_slice fails for lack of bytes, read fails and yields no      *)
(* record.                                                                 *)
(***************************************************************************)
C23_ReadAgreesWithFromSlice ==
    [][ret'.op = "read" =>
          LET f == Ipv6RawExtensionHeader_from_slice(arg'.data) IN
          /\ f # Panicked
          /\ f.ok =>
                /\ ret'.ok
                /\ Ipv6RawExtensionHeader_eq(hdr', f.val.header)
                /\ ret'.pos = Len(arg'.data) - Len(f.val.rest)
                /\ ret'.pos = (arg'.data[2] + 1) * 8
          /\ ~f.ok =>
                /\ f.err.kind = "UnexpectedEndOfSlice"
                /\ ~ret'.ok
                /\ hdr' = hdr
      ]_vars

\* read took the longest header and left the trailing bytes in the reader.
C23_Witness ==
    /\ ret.op = "read"
    /\ ret.ok
    /\ ret.pos = 2048
    /\ Len(arg.data) = 2048 + MaxTrail
    /\ hdr.header_length = 255

(***************************************************************************)
(* C24: the two encoders of a destination-unreachable value agree.  For    *)
(* every Icmp6DestUnreachable d, named or Raw,                             *)
(* Icmp6Type::DestinationUnreachable(d).to_bytes() is (1, c, fb) with      *)
(* (c, fb) = d.to_bytes(); the four_bytes of a Raw sub-code are the ones   *)
(* written to the wire.                                                    *)
(***************************************************************************)
C24_EncodersAgree ==
    (wire # NoWire /\ msg.tag = "DestinationUnreachable") =>
        LET b == Icmp6DestUnreachable_to_bytes(msg.f0) IN
        wire = Triple(TYPE_DST_UNREACH, b[1], b[2])

\* The part of C24 about the type byte, the code, and the named sub-codes.
C24_EncodersAgreeOnCode ==
    (wire # NoWire /\ msg.tag = "DestinationUnreachable") =>
        LET b == Icmp6DestUnreachable_to_bytes(msg.f0) IN
        /\ wire.icmp_type = TYPE_DST_UNREACH
        /\ wire.icmp_code = b[1]
        /\ msg.f0.tag # "Raw" => wire.four_bytes = b[2]

\* A Raw sub-code holding four_bytes other than zero was encoded.
C24_Witness ==
    /\ wire # NoWire
    /\ msg = [tag |-> "DestinationUnreachable", f0 |-> DestUnreachRaw(7, <<0, 0, 5, 208>>)]

CanonicalIcmp6Type(m) ==
    CASE m.tag = "Raw" -> m.icmp_type \notin NamedTypes
      [] m.tag = "DestinationUnreachable" ->
            m.f0.tag = "Raw" =>
                /\ m.f0.code \notin CODE_DST_UNREACH_NOROUTE..CODE_DST_UNREACH_REJECT_ROUTE_TO_DEST
                /\ m.f0.four_bytes = <<0, 0, 0, 0>>
      [] m.tag = "TimeExceeded" ->
            m.code.tag = "Raw" =>
                m.code.code \notin {CODE_TIME_EXCEEDED_HOP_LIMIT_EXCEEDED,
                                    CODE_TIME_EXCEEDED_FRAGMENT_REASSEMBLY_TIME_EXCEEDED}
      [] OTHER -> TRUE

Normalised(b) ==
    Icmp6Type_to_bytes(Icmp6Type_from_bytes(b.icmp_type, b.icmp_code, b.four_bytes))

\* The 8 bytes of a header with the triple b and the checksum bytes k.
HeaderBytes(b, k) == <<b.icmp_type, b.icmp_code>> \o k \o b.four_bytes

\* The bytes Icmp6Header::write emits for the header Icmp6Header::from_slice decodes
\* from the slice s.
DecodedAndWritten(s) ==
    Icmp6Header_write(Icmp6Header_from_slice(s).val.header,
                      [data |-> <<>>, room |-> Icmp6Header_SERIALIZED_SIZE]).writer.data

C26_NormalisationIdempotent ==
    wire # NoWire =>
        /\ wire = Normalised(triple)
        /\ Normalised(wire) = wire
        /\ wire.icmp_type = triple.icmp_type
        /\ \A k \in ChksumBytes \cup {<<255, 254>>} :
              LET s == HeaderBytes(triple, k)
                  w == DecodedAndWritten(s)
              IN  /\ Len(w) = 8
                  /\ w[1] = s[1]
                  /\ SubSeq(w, 3, 4) = k
                  /\ w = HeaderBytes(wire, k)

\* A time-exceeded triple with an unknown code and four bytes in use was normalised: the
\* four bytes were zeroed, type and code kept.
C26_Witness ==
    /\ wire # NoWire
    /\ triple = Triple(TYPE_TIME_EXCEEDED, MaxCode, <<9, 9, 9, 9>>)
    /\ wire = Triple(TYPE_TIME_EXCEEDED, MaxCode, <<0, 0, 0, 0>>)

====
